---- MODULE Spec2Model ----
(***************************************************************************)
(* A model of the mailtrendz ai-service: the CSS optimizer (CSSExpert),    *)
(* the email validator (EmailValidator), the template selection of the    *)
(* email generator (EmailGenerator), the structural analysis and the       *)
(* fixes of the HTML optimizer (HTMLOptimizer), the model fallback of the  *)
(* AI coordinator (AICoordinator) and the template engine                  *)
(* (ModernTemplateEngine).                                                 *)
(*                                                                         *)
(* Text.  The services work on strings with substring tests, counts and    *)
(* regular expressions.  A string is modelled as a sequence of tokens;     *)
(* a token [k, cs, n, css] stands for n consecutive copies of the text of  *)
(* kind k, written in case cs ("n": as written, "l": after .lower(),       *)
(* "u": after .upper()); a token of kind "style" is a closed               *)
(* <style>...</style> block and carries its stylesheet in css.             *)
(* Words(k) gives, for one copy of the text of kind k, how often each     *)
(* literal the code searches for occurs in it; Size(k) is its length.      *)
(***************************************************************************)
EXTENDS Integers, Sequences, FiniteSets, TLC

VARIABLES
    tone_styles,                \* EmailGenerator.tone_styles
    industry_templates,         \* EmailGenerator.industry_templates
    email_client_compatibility, \* CSSExpert.email_client_compatibility
    email_client_rules,         \* EmailValidator.email_client_rules
    call,                       \* the call that returned last, with its result
    enh,                        \* a stylesheet under repeated enhancement
    ai,                         \* the AICoordinator call in progress
    db,                         \* the project document of the document store
    req,                        \* the /modify and chat requests in progress
    mon,                        \* performance_monitor (PerformanceMonitor)
    http,                       \* the HTTP requests inside the middleware
    clock                       \* time.time() in milliseconds

vars == <<tone_styles, industry_templates, email_client_compatibility,
          email_client_rules, call, enh, ai, db, req, mon, http, clock>>

services == <<db, req, mon, http, clock>>

tables == <<tone_styles, industry_templates, email_client_compatibility,
            email_client_rules>>

-----------------------------------------------------------------------------
(* Bounds of the model.                                                    *)

MaxClients == 2     \* longest target_clients list
MaxApply == 3       \* most successive applications of the enhancement step

-----------------------------------------------------------------------------
(* Text.                                                                   *)

Tok(k, n) == [k |-> k, cs |-> "n", n |-> n, css |-> <<>>]

StyleTok(css) == [k |-> "style", cs |-> "n", n |-> 1, css |-> css]

\* Occurrences of the searched literals in one copy of the text of kind k.
\* The texts of the input kinds:
\*   doctype `<!DOCTYPE html>`, html `<html>`, head `<head>`, body `<body>`,
\*   charset `<meta charset="UTF-8">`,
\*   viewport `<meta name="viewport" content="width=device-width" />`,
\*   title `<title>Oferta</title>`, div_class `<div class="card">`,
\*   maxw `style="max-width:600px"`, maxw_val `max-width:600px`,
\*   table `<table>`, table_role `<table role="presentation">`,
\*   img `<img src="a.png">`, img_alt `<img src="a.png" alt="a">`,
\*   h1 `<h1>Title</h1>`, h2 `<h2>Title</h2>`,
\*   a_generic `<a href="#">clique aqui</a>`, a_text `<a href="#">ver o pedido</a>`,
\*   url `https://example.com/image.png`, mso_cond `<!--[if mso]>ok<![endif]-->`,
\*   style `<style></style>` around its stylesheet, style_open `<style>`,
\*   rule `p{margin:0}`, unsup `border-radius:4px;`,
\*   unsup_open `a{border-radius:4px}` (a declaration without semicolon),
\*   pos `position:relative;`, shadow `box-shadow:0 0 2px #ccc;`,
\*   colors `p{color:#000;background-color:#fff}`, esc `content:"\e900";`,
\*   imp `top:0 !important;`, dark `@media (prefers-color-scheme: dark){}`,
\*   mobile `@media only screen and (max-width: 600px){}`, dots `...`.
\* The literal "https?://" stands for a match of that regular expression.
\* The other kinds are the literal blocks of css_expert.py (mso_block is the
\* text _optimize_html_for_outlook puts after <head>), counted from the source
\* text; the suffix _o names a block without its Outlook-unsupported
\* declarations, _t a block without its text up to its first semicolon, _ot
\* both.
WordsOf(k) ==
    CASE k = "doctype" ->
            ("<!DOCTYPE" :> 1) @@ ("<" :> 1)
      [] k = "html" ->
            ("<html" :> 1) @@ ("<" :> 1)
      [] k = "head" ->
            ("<head" :> 1) @@ ("<head>" :> 1) @@ ("<" :> 1)
      [] k = "body" ->
            ("<body" :> 1) @@ ("<" :> 1)
      [] k = "charset" ->
            ("charset" :> 1) @@ ("<" :> 1)
      [] k = "viewport" ->
            ("viewport" :> 1) @@ ("<" :> 1)
      [] k = "title" ->
            ("<title" :> 1) @@ ("<" :> 2)
      [] k = "div_class" ->
            ("class=" :> 1) @@ ("<" :> 1)
      [] k = "maxw" ->
            ("max-width" :> 1) @@ ("style=" :> 1) @@ (":" :> 1)
      [] k = "table" ->
            ("<table" :> 1) @@ ("<" :> 1)
      [] k = "table_role" ->
            ("<table" :> 1) @@ ("role=" :> 1) @@ ("<" :> 1)
      [] k = "img" ->
            ("<img" :> 1) @@ ("<" :> 1)
      [] k = "img_alt" ->
            ("<img" :> 1) @@ ("alt=" :> 1) @@ ("<" :> 1)
      [] k = "h1" ->
            ("<h1" :> 1) @@ ("<" :> 2)
      [] k = "h2" ->
            ("<h2" :> 1) @@ ("<" :> 2)
      [] k = "a_generic" ->
            ("<a" :> 1) @@ ("<" :> 2)
      [] k = "a_text" ->
            ("<a" :> 1) @@ ("<" :> 2)
      [] k = "url" ->
            (":" :> 1) @@ ("https?://" :> 1)
      [] k = "maxw_val" ->
            ("max-width" :> 1) @@ (":" :> 1)
      [] k = "pos" ->
            ("position" :> 1) @@ (":" :> 1)
      [] k = "shadow" ->
            ("box-shadow" :> 1) @@ ("shadow" :> 1) @@ (":" :> 1)
      [] k = "colors" ->
            ("color:" :> 2) @@ ("#fff" :> 1) @@ ("#000" :> 1) @@ (":" :> 2)
      [] k = "mso_cond" ->
            ("mso" :> 1) @@ ("<!--[if mso" :> 1) @@ ("<" :> 2)
      [] k = "mso_block" ->
            ("mso" :> 1) @@ ("<!--[if mso" :> 1) @@ ("<" :> 11) @@ (":" :> 5)
      [] k = "style" ->
            ("<style" :> 1) @@ ("<" :> 2)
      [] k = "style_open" ->
            ("<style" :> 1) @@ ("<" :> 1)
      [] k = "rule" ->
            (":" :> 1)
      [] k = "unsup" ->
            ("border-radius" :> 1) @@ (":" :> 1)
      [] k = "unsup_open" ->
            ("border-radius" :> 1) @@ (":" :> 1)
      [] k = "esc" ->
            ("\\" :> 1) @@ (":" :> 1)
      [] k = "imp" ->
            ("!important" :> 1) @@ (":" :> 1)
      [] k = "dark" ->
            ("@media (prefers-color-scheme: dark)" :> 1) @@ (":" :> 1)
      [] k = "mobile" ->
            ("max-width" :> 1)
            @@ ("@media only screen and (max-width: 600px)" :> 1) @@ (":" :> 1)
      [] k = "img_alt_empty" ->
            ("<img" :> 1) @@ ("alt=" :> 1) @@ ("<" :> 1)
      [] k = "img_data_alt" ->
            ("<img" :> 1) @@ ("alt=" :> 1) @@ ("<" :> 1)
      [] k = "img_fixed" ->
            ("<img" :> 1) @@ ("alt=" :> 1) @@ ("<" :> 1)
      [] k = "table_outlook" ->
            ("<table" :> 1) @@ ("<" :> 1)
      [] k = "table_role_outlook" ->
            ("<table" :> 1) @@ ("role=" :> 1) @@ ("<" :> 1)
      [] k = "rule_gmail" ->
            ("!important" :> 1) @@ (":" :> 1)
      [] k = "mso_style" ->
            ("style=" :> 1) @@ ("mso" :> 1) @@ ("<" :> 1) @@ (":" :> 1)
      [] k = "viewport_fix" ->
            ("viewport" :> 1) @@ ("<" :> 1)
      [] k = "outlook_css" ->
            ("mso" :> 2) @@ ("!important" :> 1) @@ (":" :> 10)
      [] k = "outlook_css_t" ->
            ("mso" :> 2) @@ (":" :> 9)
      [] k = "gmail_css" ->
            ("max-width" :> 1) @@ (":" :> 4)
      [] k = "gmail_css_t" ->
            ("max-width" :> 1) @@ (":" :> 3)
      [] k = "dark_css" ->
            ("color:" :> 3) @@ ("!important" :> 5)
            @@ ("@media (prefers-color-scheme: dark)" :> 1) @@ ("gradient" :> 2)
            @@ (":" :> 6)
      [] k = "dark_css_t" ->
            ("color:" :> 3) @@ ("!important" :> 4) @@ ("gradient" :> 1)
            @@ (":" :> 4)
      [] k = "mobile_css" ->
            ("max-width" :> 2) @@ ("border-radius" :> 1)
            @@ ("!important" :> 8)
            @@ ("@media only screen and (max-width: 600px)" :> 1) @@ (":" :> 9)
      [] k = "mobile_css_t" ->
            ("max-width" :> 1) @@ ("border-radius" :> 1)
            @@ ("!important" :> 7) @@ (":" :> 7)
      [] k = "framework_css" ->
            ("max-width" :> 3) @@ ("position" :> 4) @@ ("box-shadow" :> 6)
            @@ ("text-shadow" :> 1) @@ ("shadow" :> 7) @@ ("color:" :> 19)
            @@ ("#fff" :> 7) @@ ("#ffffff" :> 7) @@ ("white" :> 1)
            @@ ("mso" :> 2) @@ ("border-radius" :> 7) @@ ("transform" :> 1)
            @@ ("transition" :> 1) @@ ("!important" :> 26)
            @@ ("@media (prefers-color-scheme: dark)" :> 1)
            @@ ("@media only screen and (max-width: 600px)" :> 1)
            @@ ("gradient" :> 9) @@ (":" :> 186)
      [] k = "framework_css_t" ->
            ("max-width" :> 3) @@ ("position" :> 4) @@ ("box-shadow" :> 6)
            @@ ("text-shadow" :> 1) @@ ("shadow" :> 7) @@ ("color:" :> 19)
            @@ ("#fff" :> 7) @@ ("#ffffff" :> 7) @@ ("white" :> 1)
            @@ ("mso" :> 2) @@ ("border-radius" :> 7) @@ ("transform" :> 1)
            @@ ("transition" :> 1) @@ ("!important" :> 26)
            @@ ("@media (prefers-color-scheme: dark)" :> 1)
            @@ ("@media only screen and (max-width: 600px)" :> 1)
            @@ ("gradient" :> 9) @@ (":" :> 185)
      [] k = "mobile_css_o" ->
            ("max-width" :> 2) @@ ("!important" :> 7)
            @@ ("@media only screen and (max-width: 600px)" :> 1) @@ (":" :> 8)
      [] k = "mobile_css_ot" ->
            ("max-width" :> 1) @@ ("!important" :> 6) @@ (":" :> 6)
      [] k = "framework_css_o" ->
            ("max-width" :> 3) @@ ("position" :> 4) @@ ("color:" :> 19)
            @@ ("#fff" :> 7) @@ ("#ffffff" :> 7) @@ ("white" :> 1)
            @@ ("mso" :> 2) @@ ("!important" :> 25)
            @@ ("@media (prefers-color-scheme: dark)" :> 1)
            @@ ("@media only screen and (max-width: 600px)" :> 1)
            @@ ("gradient" :> 9) @@ (":" :> 170)
      [] k = "framework_css_ot" ->
            ("max-width" :> 3) @@ ("position" :> 4) @@ ("color:" :> 19)
            @@ ("#fff" :> 7) @@ ("#ffffff" :> 7) @@ ("white" :> 1)
            @@ ("mso" :> 2) @@ ("!important" :> 25)
            @@ ("@media (prefers-color-scheme: dark)" :> 1)
            @@ ("@media only screen and (max-width: 600px)" :> 1)
            @@ ("gradient" :> 9) @@ (":" :> 169)
      [] OTHER -> ("" :> 0)

\* The kinds of text in which a searched literal occurs.
Kinds ==
    {"doctype", "html", "head", "body", "charset", "viewport", "title",
     "div_class", "maxw", "table", "table_role", "img", "img_alt", "h1",
     "h2", "a_generic", "a_text", "url", "maxw_val", "pos", "shadow",
     "colors", "mso_cond", "mso_block", "style", "style_open", "rule",
     "unsup", "unsup_open", "esc", "imp", "dark", "mobile", "img_alt_empty",
     "img_data_alt", "img_fixed", "table_outlook", "table_role_outlook",
     "rule_gmail", "mso_style", "viewport_fix", "outlook_css",
     "outlook_css_t", "gmail_css", "gmail_css_t", "dark_css", "dark_css_t",
     "mobile_css", "mobile_css_t", "framework_css", "framework_css_t",
     "mobile_css_o", "mobile_css_ot", "framework_css_o", "framework_css_ot"}

WordsTable == [k \in Kinds |-> WordsOf(k)]

Words(k) == IF k \in Kinds THEN WordsTable[k] ELSE ("" :> 0)

\* Length of one copy of the text of kind k (characters, as Python's len).
SizeOf(k) ==
    CASE k = "doctype" -> 15
      [] k = "html" -> 6
      [] k = "head" -> 6
      [] k = "body" -> 6
      [] k = "charset" -> 22
      [] k = "viewport" -> 53
      [] k = "title" -> 21
      [] k = "div_class" -> 18
      [] k = "maxw" -> 23
      [] k = "table" -> 7
      [] k = "table_role" -> 27
      [] k = "img" -> 17
      [] k = "img_alt" -> 25
      [] k = "h1" -> 14
      [] k = "h2" -> 14
      [] k = "a_generic" -> 27
      [] k = "a_text" -> 28
      [] k = "url" -> 29
      [] k = "maxw_val" -> 15
      [] k = "pos" -> 18
      [] k = "shadow" -> 24
      [] k = "colors" -> 35
      [] k = "mso_cond" -> 27
      [] k = "mso_block" -> 170
      [] k = "style" -> 15
      [] k = "style_open" -> 7
      [] k = "rule" -> 11
      [] k = "unsup" -> 18
      [] k = "unsup_open" -> 20
      [] k = "esc" -> 16
      [] k = "imp" -> 17
      [] k = "dark" -> 37
      [] k = "mobile" -> 43
      [] k = "dots" -> 3
      [] k = "nl_indent" -> 5
      [] k = "img_alt_empty" -> 24
      [] k = "img_data_alt" -> 30
      [] k = "img_fixed" -> 30
      [] k = "table_outlook" -> 50
      [] k = "table_role_outlook" -> 70
      [] k = "rule_gmail" -> 24
      [] k = "mso_style" -> 40
      [] k = "viewport_fix" -> 70
      [] k = "outlook_css" -> 340
      [] k = "outlook_css_t" -> 247
      [] k = "gmail_css" -> 236
      [] k = "gmail_css_t" -> 147
      [] k = "dark_css" -> 471
      [] k = "dark_css_t" -> 327
      [] k = "mobile_css" -> 450
      [] k = "mobile_css_t" -> 352
      [] k = "framework_css" -> 6968
      [] k = "framework_css_t" -> 6883
      [] k = "mobile_css_o" -> 422
      [] k = "mobile_css_ot" -> 324
      [] k = "framework_css_o" -> 6485
      [] k = "framework_css_ot" -> 6400
      [] OTHER -> 1     \* "pad", "cut", "text": one character each

SizeTable ==
    [k \in Kinds \cup {"dots", "nl_indent"} |-> SizeOf(k)]

Size(k) == IF k \in DOMAIN SizeTable THEN SizeTable[k] ELSE 1

\* The case of the letters of literal w where it occurs in a token.
TextCase(t, w) ==
    IF t.cs = "n"
    THEN IF t.k = "doctype" /\ w = "<!DOCTYPE" THEN "u" ELSE "l"
    ELSE t.cs

\* The case of the letters of the literal w itself, as the code writes it.
NeedleCase(w) == IF w = "<!DOCTYPE" THEN "u" ELSE "l"

\* The literals without letters, found in a text whatever its case.
Caseless == {"<", ":", "\\"}

RECURSIVE Count(_, _)
\* str.count(w): occurrences of the literal w in the text s.
Count(s, w) ==
    IF s = <<>> THEN 0
    ELSE LET t == Head(s)
             own == IF w \in DOMAIN Words(t.k)
                       /\ (w \in Caseless \/ TextCase(t, w) = NeedleCase(w))
                    THEN t.n * Words(t.k)[w] ELSE 0
         IN own + Count(t.css, w) + Count(Tail(s), w)

\* `w in s`
Contains(s, w) == Count(s, w) > 0

RECURSIVE Recase(_, _)
Recase(s, c) ==
    [i \in 1..Len(s) |-> [s[i] EXCEPT !.cs = c, !.css = Recase(s[i].css, c)]]

\* str.lower() and str.upper()
Lower(s) == Recase(s, "l")
Upper(s) == Recase(s, "u")

RECURSIVE StrLen(_)
\* len(s)
StrLen(s) ==
    IF s = <<>> THEN 0
    ELSE LET t == Head(s)
         IN (IF t.k = "style" THEN 15 + StrLen(t.css) ELSE t.n * Size(t.k))
            + StrLen(Tail(s))

RECURSIVE Prefix(_, _)
\* s[:room]: whole tokens while they fit; the token the cut falls in is kept
\* as a fragment of room characters in which no literal is recognised.
Prefix(s, room) ==
    IF s = <<>> \/ room = 0 THEN <<>>
    ELSE LET t == Head(s)
             sz == t.n * Size(t.k)
         IN IF sz <= room THEN <<t>> \o Prefix(Tail(s), room - sz)
            ELSE IF t.k = "pad" THEN <<[t EXCEPT !.n = room]>>
            ELSE <<Tok("cut", room)>>

\* s if b, else the empty text
Opt(b, s) == IF b THEN s ELSE <<>>

RECURSIVE Flatten(_)
Flatten(ss) == IF ss = <<>> THEN <<>> ELSE Head(ss) \o Flatten(Tail(ss))

IsStyle(t) == t.k = "style"
NotStyle(t) == t.k # "style"


RECURSIVE Repeat(_, _)
Repeat(s, n) == IF n = 0 THEN <<>> ELSE s \o Repeat(s, n - 1)

\* str.replace("<head>", "<head>" + ins): ins follows every literal <head>.
AfterHead(html, ins) ==
    Flatten([i \in 1..Len(html) |->
        IF html[i].k = "head" /\ html[i].cs = "n"
        THEN Repeat(<<[html[i] EXCEPT !.n = 1]>> \o ins, html[i].n)
        ELSE <<html[i]>>])

\* Index of the first closed style block of s, 0 when there is none.
FirstStyle(s) ==
    IF \E i \in 1..Len(s) : IsStyle(s[i])
    THEN CHOOSE i \in 1..Len(s) :
            IsStyle(s[i]) /\ \A j \in 1..(i - 1) : NotStyle(s[j])
    ELSE 0

RECURSIVE StyleMatches(_)
\* The matches of the regular expression <style[^>]*>(.*?)</style> in s, left
\* to right, each as [pre, content]: the text before the match (after the
\* previous one) and group 1.  A match starts at the first <style> tag, closed
\* or not, and ends at the first </style> after it.
StyleMatches(s) ==
    LET j == FirstStyle(s)
    IN IF j = 0 THEN <<>>
       ELSE LET opens == {i \in 1..(j - 1) : s[i].k = "style_open"}
                i0 == IF opens = {} THEN j
                      ELSE CHOOSE i \in opens : \A i2 \in opens : i <= i2
                content == IF i0 = j THEN s[j].css
                           ELSE SubSeq(s, i0 + 1, j - 1)
                                \o <<Tok("style_open", 1)>> \o s[j].css
            IN <<[pre |-> SubSeq(s, 1, i0 - 1), content |-> content]>>
               \o StyleMatches(SubSeq(s, j + 1, Len(s)))

RECURSIVE StyleRest(_)
\* The text after the last match of the style regular expression.
StyleRest(s) ==
    LET j == FirstStyle(s)
    IN IF j = 0 THEN s ELSE StyleRest(SubSeq(s, j + 1, Len(s)))

\* re.sub(r'<style[^>]*>.*?</style>', repl, s)
StyleSub(s, repl) ==
    LET m == StyleMatches(s)
    IN Flatten([i \in 1..Len(m) |-> m[i].pre \o repl]) \o StyleRest(s)

-----------------------------------------------------------------------------
(* CSSExpert (css_expert.py).                                              *)

YahooCssLimit == 30000

InitCompatibility ==
    [c \in {"gmail", "outlook", "apple_mail", "yahoo"} |->
        [supports_css3 |-> c = "apple_mail",
         supports_media_queries |-> c # "outlook",
         max_css_size |-> CASE c = "gmail" -> "50kb"
                            [] c = "yahoo" -> "30kb"
                            [] OTHER -> "unlimited",
         inline_only |-> c = "outlook"]]

_extract_css_from_html(html) ==
    LET m == StyleMatches(html)
    IN IF m = <<>> THEN <<>> ELSE m[1].content

_extract_html_without_css(html) == StyleSub(html, <<>>)

\* The kinds of stylesheet text that contain a semicolon.  (A fragment left
\* by a cut or by an earlier removal is taken to hold none: the stylesheets
\* of the model carry at most one declaration without semicolon.)
HasSemicolon(t) ==
    t.k \in {"unsup", "shadow", "pos", "imp", "esc", "outlook_css", "gmail_css",
             "dark_css", "mobile_css", "mobile_css_o", "framework_css",
             "framework_css_o"}

\* The kind of what is left of a literal block when its text up to and
\* including its first semicolon is removed.
TailKind ==
    [outlook_css |-> "outlook_css_t", gmail_css |-> "gmail_css_t",
     dark_css |-> "dark_css_t", mobile_css |-> "mobile_css_t",
     mobile_css_o |-> "mobile_css_ot", framework_css |-> "framework_css_t",
     framework_css_o |-> "framework_css_ot"]

\* The kind of what is left of a literal block when the unsupported
\* declarations it contains are removed.
StrippedKind ==
    [mobile_css |-> "mobile_css_o", mobile_css_t |-> "mobile_css_ot",
     framework_css |-> "framework_css_o",
     framework_css_t |-> "framework_css_ot"]

\* What is left of the token t, which contains a semicolon, when its text up
\* to and including its first semicolon is removed: a single declaration goes
\* whole, a literal block keeps what follows its first declaration.
AfterSemicolon(t) ==
    (IF t.k \in DOMAIN TailKind THEN <<Tok(TailKind[t.k], 1)>> ELSE <<>>)
    \o (IF t.n > 1 THEN <<[t EXCEPT !.n = t.n - 1]>> ELSE <<>>)

RECURSIVE RemoveUnsupported(_)
\* re.sub(prop + r'\s*:[^;]+;', '', css) for the six unsupported properties.
\* A match runs from the property name to the first semicolon after it: a
\* terminated declaration goes whole, a literal block loses the ones it
\* contains, a declaration without semicolon takes with it the text up to the
\* next semicolon of the stylesheet (its `a{` stays) and stays itself when
\* there is none.
RemoveUnsupported(css) ==
    IF css = <<>> THEN <<>>
    ELSE LET t == Head(css)
             rest == Tail(css)
             semis == {i \in 1..Len(rest) : HasSemicolon(rest[i])}
             j == CHOOSE i \in semis : \A i2 \in semis : i <= i2
         IN CASE t.k \in {"unsup", "shadow"} -> RemoveUnsupported(rest)
              [] t.k = "unsup_open" ->
                    IF semis = {} THEN css
                    ELSE <<Tok("cut", 2 + (t.n - 1) * Size(t.k))>>
                         \o RemoveUnsupported(
                                AfterSemicolon(rest[j])
                                \o SubSeq(rest, j + 1, Len(rest)))
              [] t.k \in DOMAIN StrippedKind ->
                    <<[t EXCEPT !.k = StrippedKind[t.k]]>>
                    \o RemoveUnsupported(rest)
              [] OTHER -> <<t>> \o RemoveUnsupported(rest)

\* The Outlook block is appended after the removal.
_optimize_css_for_outlook(css) ==
    RemoveUnsupported(css) \o <<Tok("outlook_css", 1)>>

\* A variant of the Gmail transform that first adds an !important declaration
\* to a stylesheet that has none.
GmailInjectsImportant(css) ==
    (IF Contains(css, "!important") THEN css ELSE css \o <<Tok("imp", 1)>>)
    \o <<Tok("gmail_css", 1)>>

_optimize_css_for_gmail(css) == css \o <<Tok("gmail_css", 1)>>

_optimize_css_for_yahoo(css) ==
    IF StrLen(css) > YahooCssLimit
    THEN Prefix(css, YahooCssLimit) \o <<Tok("dots", 1)>>
    ELSE css

_optimize_html_for_outlook(html) ==
    IF ~Contains(Lower(html), "mso")
    THEN AfterHead(html, <<Tok("mso_block", 1)>>)
    ELSE html

\* A variant of the dispatch that gives apple_mail the transform of gmail
\* and no label of its own.
SpecificClientWithAppleReset(css, html, client) ==
    CASE client = "outlook" ->
            [css |-> _optimize_css_for_outlook(css),
             html |-> _optimize_html_for_outlook(html),
             optimizations |-> <<"Outlook VML compatibility",
                                 "Table-based layout">>]
      [] client \in {"gmail", "apple_mail"} ->
            [css |-> _optimize_css_for_gmail(css),
             html |-> html,
             optimizations |-> <<"Gmail CSS reset",
                                 "Inline styles prioritized">>]
      [] client = "yahoo" ->
            [css |-> _optimize_css_for_yahoo(css),
             html |-> html,
             optimizations |-> <<"Yahoo CSS size optimized">>]
      [] OTHER ->
            [css |-> css, html |-> html, optimizations |-> <<>>]

_optimize_for_specific_client(css, html, client) ==
    CASE client = "outlook" ->
            [css |-> _optimize_css_for_outlook(css),
             html |-> _optimize_html_for_outlook(html),
             optimizations |-> <<"Outlook VML compatibility",
                                 "Table-based layout">>]
      [] client = "gmail" ->
            [css |-> _optimize_css_for_gmail(css),
             html |-> html,
             optimizations |-> <<"Gmail CSS reset",
                                 "Inline styles prioritized">>]
      [] client = "apple_mail" ->
            [css |-> css, html |-> html,
             optimizations |-> <<"Full CSS3 support enabled">>]
      [] client = "yahoo" ->
            [css |-> _optimize_css_for_yahoo(css),
             html |-> html,
             optimizations |-> <<"Yahoo CSS size optimized">>]
      [] OTHER ->
            [css |-> css, html |-> html, optimizations |-> <<>>]

\* A variant of the enhancement step that appends its blocks without looking
\* for the markers.
AppendEnhancementsUnchecked(css, html, enable_dark_mode, mobile_first) ==
    [css |-> css \o Opt(enable_dark_mode, <<Tok("dark_css", 1)>>)
                 \o Opt(mobile_first, <<Tok("mobile_css", 1)>>),
     html |-> html,
     enhancements |->
        Opt(enable_dark_mode, <<"Dark mode support">>)
        \o Opt(mobile_first, <<"Mobile-first responsive">>)]

_apply_modern_enhancements(css, html, enable_dark_mode, mobile_first) ==
    LET addDark == enable_dark_mode
                   /\ ~Contains(css, "@media (prefers-color-scheme: dark)")
        css1 == IF addDark THEN css \o <<Tok("dark_css", 1)>> ELSE css
        addMobile == mobile_first
                     /\ ~Contains(css1, "@media only screen and (max-width: 600px)")
        css2 == IF addMobile THEN css1 \o <<Tok("mobile_css", 1)>> ELSE css1
    IN [css |-> css2,
        html |-> html,
        enhancements |->
            (IF addDark THEN <<"Dark mode support">> ELSE <<>>)
            \o (IF addMobile THEN <<"Mobile-first responsive">> ELSE <<>>)]

\* re.sub compiles its replacement template first: a backslash escape it does
\* not know (the CSS escape \e900) raises re.error.
CombineRaises(html, css) ==
    Contains(html, "<style") /\ Contains(css, "\\")

_combine_html_with_css(html, css) ==
    IF Contains(html, "<style") THEN StyleSub(html, <<StyleTok(css)>>)
    ELSE IF Contains(html, "<head>") THEN AfterHead(html, <<StyleTok(css)>>)
    ELSE <<StyleTok(css)>> \o html

\* A score is the record [h, e]: the hundredth nearest to the floating-point
\* value and what the value exceeds it by, in units of 1e-16.  base_score
\* starts at 0.8 and grows by 0.05 at a time in binary64 arithmetic; after k
\* additions it is 0.8, 0.8500000000000001, 0.9000000000000001,
\* 0.9500000000000002, 1.0000000000000002.
BaseScoreAfter ==
    <<[h |-> 80, e |-> 0], [h |-> 85, e |-> 1], [h |-> 90, e |-> 1],
      [h |-> 95, e |-> 2], [h |-> 100, e |-> 2]>>

base_score(target_clients) ==
    LET has(c) == \E i \in 1..Len(target_clients) : target_clients[i] = c
        additions == (IF has("outlook") THEN 1 ELSE 0)
                     + (IF has("gmail") THEN 1 ELSE 0)
                     + (IF has("apple_mail") THEN 1 ELSE 0)
                     + (IF Len(target_clients) >= 3 THEN 1 ELSE 0)
    IN BaseScoreAfter[1 + additions]

\* A variant of the score that returns the sum as it stands.
ScoreWithoutCap(target_clients) == base_score(target_clients)

\* min(base_score, 1.0)
_calculate_compatibility_score(target_clients) ==
    LET b == base_score(target_clients)
    IN IF b.h > 100 \/ (b.h = 100 /\ b.e > 0) THEN [h |-> 100, e |-> 0] ELSE b

\* Variants of the fallback result: one reports full compatibility, one
\* returns the document with the framework stylesheet already put in.
FallbackWithFullScore(html) ==
    [html |-> html,
     css |-> <<Tok("framework_css", 1)>>,
     optimizations |-> <<"Fallback optimization applied">>,
     compatibility_score |-> 100,
     compatibility_excess |-> 0,
     supported_clients |-> <<"gmail", "outlook">>,
     dark_mode_enabled |-> TRUE,
     mobile_optimized |-> TRUE,
     raised |-> FALSE,
     fallback |-> TRUE,
     steps |-> <<>>]

FallbackWithStyledHtml(html) ==
    [html |-> <<StyleTok(<<Tok("framework_css", 1)>>)>> \o html,
     css |-> <<Tok("framework_css", 1)>>,
     optimizations |-> <<"Fallback optimization applied">>,
     compatibility_score |-> 80,
     compatibility_excess |-> 0,
     supported_clients |-> <<"gmail", "outlook">>,
     dark_mode_enabled |-> TRUE,
     mobile_optimized |-> TRUE,
     raised |-> FALSE,
     fallback |-> TRUE,
     steps |-> <<>>]

_create_fallback_optimization(html) ==
    [html |-> html,
     css |-> <<Tok("framework_css", 1)>>,
     optimizations |-> <<"Fallback optimization applied">>,
     compatibility_score |-> 80,
     compatibility_excess |-> 0,
     supported_clients |-> <<"gmail", "outlook">>,
     dark_mode_enabled |-> TRUE,
     mobile_optimized |-> TRUE,
     raised |-> FALSE,
     fallback |-> TRUE,
     steps |-> <<>>]

RECURSIVE ClientLoopIndependent(_, _, _)
\* A variant of the loop that gives every client the css and html the loop
\* started with.
ClientLoopIndependent(css, html, clients) ==
    IF clients = <<>>
    THEN [css |-> css, html |-> html, optimizations |-> <<>>, steps |-> <<>>]
    ELSE LET client == Head(clients)
         IN IF client \in DOMAIN email_client_compatibility
            THEN LET r == _optimize_for_specific_client(css, html, client)
                     rest == ClientLoopIndependent(css, html, Tail(clients))
                 IN [rest EXCEPT
                       !.css = IF Tail(clients) = <<>> THEN r.css ELSE @,
                       !.html = IF Tail(clients) = <<>> THEN r.html ELSE @,
                       !.optimizations = r.optimizations \o @,
                       !.steps = <<[client |-> client,
                                    css_in |-> css, html_in |-> html,
                                    css_out |-> r.css, html_out |-> r.html,
                                    optimizations |-> r.optimizations]>> \o @]
            ELSE ClientLoopIndependent(css, html, Tail(clients))

RECURSIVE ClientLoop(_, _, _)
\* The loop over target_clients: each known client's transform is given the
\* css and html the previous one returned.  steps records, per client
\* processed, what its transform was given and what it returned.
ClientLoop(css, html, clients) ==
    IF clients = <<>>
    THEN [css |-> css, html |-> html, optimizations |-> <<>>, steps |-> <<>>]
    ELSE LET client == Head(clients)
         IN IF client \in DOMAIN email_client_compatibility
            THEN LET r == _optimize_for_specific_client(css, html, client)
                     rest == ClientLoop(r.css, r.html, Tail(clients))
                 IN [rest EXCEPT
                       !.optimizations = r.optimizations \o @,
                       !.steps = <<[client |-> client,
                                    css_in |-> css, html_in |-> html,
                                    css_out |-> r.css, html_out |-> r.html,
                                    optimizations |-> r.optimizations]>> \o @]
            ELSE ClientLoop(css, html, Tail(clients))

\* The result record without components and processing_time;
\* compatibility_score is the score's hundredth and compatibility_excess its
\* excess; raised tells
\* whether an exception left the function, fallback whether the except branch
\* built the result, steps is the record of the client loop.
optimize_for_email_clients(html, target_clients, enable_dark_mode, mobile_first) ==
    LET extracted_css == _extract_css_from_html(html)
        extracted_html == _extract_html_without_css(html)
        loop == ClientLoop(extracted_css, extracted_html, target_clients)
        modern == _apply_modern_enhancements(loop.css, loop.html,
                                             enable_dark_mode, mobile_first)
        score == _calculate_compatibility_score(target_clients)
    IN IF CombineRaises(modern.html, modern.css)
       THEN [_create_fallback_optimization(html) EXCEPT !.steps = loop.steps]
       ELSE [html |-> _combine_html_with_css(modern.html, modern.css),
             css |-> modern.css,
             optimizations |-> loop.optimizations \o modern.enhancements,
             compatibility_score |-> score.h,
             compatibility_excess |-> score.e,
             supported_clients |-> target_clients,
             dark_mode_enabled |-> enable_dark_mode,
             mobile_optimized |-> mobile_first,
             raised |-> FALSE,
             fallback |-> FALSE,
             steps |-> loop.steps]

-----------------------------------------------------------------------------
(* EmailValidator (validators.py).                                         *)

Max(a, b) == IF a > b THEN a ELSE b
Min(a, b) == IF a < b THEN a ELSE b

RECURSIVE SumSeq(_)
SumSeq(s) == IF s = <<>> THEN 0 ELSE Head(s) + SumSeq(Tail(s))

\* Copies of the tokens of the given kinds in s.
Copies(s, kinds) ==
    SumSeq([i \in 1..Len(s) |-> IF s[i].k \in kinds THEN s[i].n ELSE 0])

HtmlSizeWarning == 50000
HtmlSizeCritical == 102400
ImageCountWarning == 5
ImageCountCritical == 10
ExternalRequestsWarning == 3
ExternalRequestsCritical == 6

\* max_css_size 0 stands for None; a key a client's entry lacks reads as
\* FALSE, as rules.get does.
InitClientRules ==
    [c \in {"gmail", "outlook", "apple_mail", "yahoo", "thunderbird"} |->
        [max_css_size |-> CASE c = "gmail" -> 50000
                            [] c = "yahoo" -> 30000
                            [] OTHER -> 0,
         supports_media_queries |-> c # "outlook",
         blocked_css |-> CASE c = "gmail" -> <<"position", "z-index", "float">>
                           [] c = "outlook" -> <<"border-radius", "box-shadow",
                                                 "text-shadow", "transform">>
                           [] c = "apple_mail" -> <<>>
                           [] OTHER -> <<"position">>,
         uses_word_engine |-> c = "outlook",
         strips_head_styles |-> c = "gmail",
         max_width |-> 600]]

\* max(0, score)
Unclamped(score) == score

Clamp(score) == Max(0, score)

\* A variant of the structural validator that derives valid from the score.
StructureValidByScore(html) ==
    LET missing == SelectSeq(<<"<!DOCTYPE", "<html", "<head", "<body">>,
                             LAMBDA e : ~Contains(Upper(html), e))
        score == 100 - 20 * Len(missing)
                 - (IF ~Contains(Lower(html), "charset") THEN 5 ELSE 0)
                 - (IF ~Contains(Lower(html), "viewport") THEN 5 ELSE 0)
                 - (IF ~Contains(Lower(html), "max-width") THEN 10 ELSE 0)
                 - (IF ~Contains(Lower(html), "<table") THEN 5 ELSE 0)
    IN [valid |-> score >= 40,
        score |-> Max(0, score),
        issues |-> [i \in 1..Len(missing) |-> <<"Missing", missing[i]>>],
        warnings |-> <<>>]

_validate_html_structure(html) ==
    LET required_elements ==
            << <<"<!DOCTYPE", "Missing DOCTYPE declaration">>,
               <<"<html", "Missing <html> tag">>,
               <<"<head", "Missing <head> section">>,
               <<"<body", "Missing <body> tag">> >>
        missing == SelectSeq(required_elements,
                             LAMBDA e : ~Contains(Upper(html), e[1]))
        issues == [i \in 1..Len(missing) |-> missing[i][2]]
        noCharset == ~Contains(Lower(html), "charset")
        noViewport == ~Contains(Lower(html), "viewport")
        noMaxWidth == ~Contains(Lower(html), "max-width")
        noTable == ~Contains(Lower(html), "<table")
        score == 100 - 20 * Len(issues)
                 - (IF noCharset THEN 5 ELSE 0) - (IF noViewport THEN 5 ELSE 0)
                 - (IF noMaxWidth THEN 10 ELSE 0) - (IF noTable THEN 5 ELSE 0)
    IN [valid |-> Len(issues) = 0,
        score |-> Clamp(score),
        issues |-> issues,
        warnings |->
            Opt(noCharset, <<<<"Missing charset meta tag">>>>)
            \o Opt(noViewport, <<<<"Missing viewport meta tag">>>>)
            \o Opt(noMaxWidth, <<<<"No max-width specified for email container">>>>)
            \o Opt(noTable, <<<<"Consider using tables for better email client compatibility">>>>)]

\* re.findall(r'<style[^>]*>(.*?)</style>', html): the stylesheets of the
\* style blocks.
CssBlocks(html) ==
    LET m == StyleMatches(html) IN [i \in 1..Len(m) |-> m[i].content]

\* re.findall(r'style="([^"]*)"', html): the values of the style attributes.
InlineStyles(html) ==
    Flatten([i \in 1..Len(html) |->
        IF html[i].k = "maxw" /\ html[i].cs = "n"
        THEN [j \in 1..html[i].n |-> <<Tok("maxw_val", 1)>>]
        ELSE <<>>])

_validate_css_content(html, target_clients) ==
    LET pieces == CssBlocks(html) \o InlineStyles(html)
        total_css == Flatten(pieces)
        \* '\n'.join puts one character between two pieces
        css_size == StrLen(total_css) + Max(0, Len(pieces) - 1)
        has(c) == \E i \in 1..Len(target_clients) : target_clients[i] = c
        problematic_properties ==
            <<"border-radius", "box-shadow", "text-shadow",
              "transform", "transition", "animation">>
        found == IF has("outlook")
                 THEN SelectSeq(problematic_properties,
                                LAMBDA prop : Contains(total_css, prop))
                 ELSE <<>>
        important_count == Count(total_css, "!important")
        score == 100
                 - (IF css_size > 50000 THEN 20
                    ELSE IF css_size > 30000 THEN 10 ELSE 0)
                 - 5 * Len(found)
                 - (IF important_count = 0 /\ has("gmail") THEN 5
                    ELSE IF important_count > 20 THEN 10 ELSE 0)
    IN [score |-> Clamp(score),
        warnings |->
            (IF css_size > 50000
             THEN <<<<"CSS size exceeds 50KB (may be stripped)">>>>
             ELSE IF css_size > 30000 THEN <<<<"CSS size exceeds 30KB">>>>
             ELSE <<>>)
            \o [i \in 1..Len(found) |-> <<"not supported in Outlook", found[i]>>]
            \o (IF important_count = 0 /\ has("gmail")
                THEN <<<<"Consider using !important for Gmail compatibility">>>>
                ELSE IF important_count > 20
                THEN <<<<"Excessive use of !important">>>> ELSE <<>>),
        css_size |-> css_size,
        important_count |-> important_count]

\* A variant of the per-client validator that refuses an identifier the
\* table lacks with a score of 0 and an issue.
ValidateKnownClientOnly(html, client) ==
    IF client \notin DOMAIN email_client_rules
    THEN [score |-> 0, issues |-> <<<<"Unknown client">>>>, warnings |-> <<>>]
    ELSE [score |-> 100, issues |-> <<>>, warnings |-> <<>>]

_validate_for_client(html, client) ==
    IF client \notin DOMAIN email_client_rules
    THEN [score |-> 80, issues |-> <<>>, warnings |-> <<>>]
    ELSE
    LET rules == email_client_rules[client]
        blocks == CssBlocks(html)
        css_size == SumSeq([i \in 1..Len(blocks) |-> StrLen(blocks[i])])
        tooBig == rules.max_css_size # 0 /\ css_size > rules.max_css_size
        blocked == SelectSeq(rules.blocked_css, LAMBDA prop : Contains(html, prop))
        noTable == client = "outlook" /\ ~Contains(Lower(html), "<table")
        noMso == client = "outlook" /\ rules.uses_word_engine
                 /\ ~Contains(Lower(html), "mso")
        styleTag == client = "gmail" /\ rules.strips_head_styles
                    /\ Contains(html, "<style")
        score == 100 - (IF tooBig THEN 20 ELSE 0) - 5 * Len(blocked)
                 - (IF noTable THEN 10 ELSE 0) - (IF noMso THEN 5 ELSE 0)
                 - (IF styleTag THEN 5 ELSE 0)
    IN [score |-> Clamp(score),
        issues |-> Opt(tooBig, <<<<"CSS size exceeds client limit">>>>),
        warnings |->
            [i \in 1..Len(blocked) |-> <<"not supported in client", blocked[i]>>]
            \o Opt(noTable, <<<<"Outlook prefers table-based layouts">>>>)
            \o Opt(noMso, <<<<"Consider adding MSO conditionals for Outlook">>>>)
            \o Opt(styleTag, <<<<"Gmail may strip <style> tags - prefer inline styles">>>>)]

_validate_accessibility(html) ==
    LET missing_count == Copies(html, {"img"})
        headers == SelectSeq(html, LAMBDA t : t.k \in {"h1", "h2"})
        first == IF headers = <<>> THEN "none" ELSE headers[1].k
        has_light == \E c \in {"#fff", "#ffffff", "white"} : Contains(Lower(html), c)
        has_dark == \E c \in {"#000", "#000000", "black"} : Contains(Lower(html), c)
        contrast == Contains(html, "color:") /\ ~(has_light /\ has_dark)
        generic == Copies(html, {"a_generic"}) > 0
        noRole == Copies(html, {"table"}) > 0
        score == 100 - Min(30, missing_count * 5)
                 - (IF first = "none" THEN 10 ELSE IF first # "h1" THEN 5 ELSE 0)
                 - (IF contrast THEN 5 ELSE 0)
                 - (IF generic THEN 10 ELSE 0)
                 - (IF noRole THEN 5 ELSE 0)
    IN [score |-> Clamp(score),
        issues |-> Opt(missing_count > 0, <<<<"images missing alt attributes">>>>),
        suggestions |->
            Opt(missing_count > 0, <<<<"Add descriptive alt text to all images">>>>)
            \o (IF first = "none"
                THEN <<<<"Consider using heading tags for better structure">>>>
                ELSE IF first # "h1"
                THEN <<<<"Start with <h1> for proper heading hierarchy">>>>
                ELSE <<>>)
            \o Opt(contrast, <<<<"Ensure sufficient color contrast">>>>)
            \o Opt(generic, <<<<"Use descriptive link text instead of 'click here'">>>>)
            \o Opt(noRole, <<<<"Add role attributes to tables for screen readers">>>>)]

\* A variant of the performance check whose thresholds are met when reached.
PerformanceFromThresholds(html) ==
    LET html_size == StrLen(html)
        image_count == Count(Lower(html), "<img")
        external_requests == Count(html, "https?://")
        css_complexity == Count(html, "gradient") + Count(html, "shadow")
                          + Count(html, "transform")
    IN [score |-> 100
                  - (IF html_size >= HtmlSizeCritical THEN 30
                     ELSE IF html_size >= HtmlSizeWarning THEN 15 ELSE 0)
                  - (IF image_count >= ImageCountCritical THEN 20
                     ELSE IF image_count >= ImageCountWarning THEN 10 ELSE 0)
                  - (IF external_requests >= ExternalRequestsCritical THEN 20
                     ELSE IF external_requests >= ExternalRequestsWarning
                     THEN 10 ELSE 0)
                  - (IF css_complexity >= 10 THEN 10 ELSE 0),
        warnings |-> <<>>,
        metrics |-> [html_size |-> html_size, image_count |-> image_count,
                     external_requests |-> external_requests,
                     css_complexity |-> css_complexity]]

_validate_performance(html) ==
    LET html_size == StrLen(html)
        image_count == Count(Lower(html), "<img")
        external_requests == Count(html, "https?://")
        css_complexity == Count(html, "gradient") + Count(html, "shadow")
                          + Count(html, "transform")
        score == 100
                 - (IF html_size > HtmlSizeCritical THEN 30
                    ELSE IF html_size > HtmlSizeWarning THEN 15 ELSE 0)
                 - (IF image_count > ImageCountCritical THEN 20
                    ELSE IF image_count > ImageCountWarning THEN 10 ELSE 0)
                 - (IF external_requests > ExternalRequestsCritical THEN 20
                    ELSE IF external_requests > ExternalRequestsWarning THEN 10
                    ELSE 0)
                 - (IF css_complexity > 10 THEN 10 ELSE 0)
    IN [score |-> Clamp(score),
        warnings |->
            (IF html_size > HtmlSizeCritical THEN <<<<"HTML size is very large">>>>
             ELSE IF html_size > HtmlSizeWarning THEN <<<<"HTML size is large">>>>
             ELSE <<>>)
            \o (IF image_count > ImageCountCritical THEN <<<<"Too many images">>>>
                ELSE IF image_count > ImageCountWarning
                THEN <<<<"Many images may slow loading">>>> ELSE <<>>)
            \o (IF external_requests > ExternalRequestsCritical
                THEN <<<<"Too many external requests">>>>
                ELSE IF external_requests > ExternalRequestsWarning
                THEN <<<<"Several external requests">>>> ELSE <<>>)
            \o Opt(css_complexity > 10,
                   <<<<"Complex CSS may affect rendering performance">>>>),
        metrics |-> [html_size |-> html_size, image_count |-> image_count,
                     external_requests |-> external_requests,
                     css_complexity |-> css_complexity]]

\* A variant of the overall score that takes the mean of no clients as 0.
OverallWithZeroDefault(structural_score, css_score, accessibility_score, performance_score, client_scores) ==
    LET n == Len(client_scores)
        fixed == 25 * structural_score + 20 * css_score
                 + 20 * accessibility_score + 15 * performance_score
    IN IF n = 0 THEN fixed \div 100
       ELSE (n * fixed + 20 * SumSeq(client_scores)) \div (100 * n)

\* int(0.25*structural + 0.20*css + 0.20*accessibility + 0.15*performance
\* + 0.20*avg), avg being sum/len, or 80 for an empty list.  The sum is
\* computed here in exact arithmetic, in hundredths; for scores that are
\* multiples of 5 and up to 6 clients the floating-point sum of the code
\* truncates to the same integer.
_calculate_overall_score(structural_score, css_score, accessibility_score, performance_score, client_scores) ==
    LET n == Len(client_scores)
        fixed == 25 * structural_score + 20 * css_score
                 + 20 * accessibility_score + 15 * performance_score
    IN IF n = 0 THEN (fixed + 20 * 80) \div 100
       ELSE (n * fixed + 20 * SumSeq(client_scores)) \div (100 * n)

\* The distinct elements of s, in order of first occurrence (the keys of a
\* dict filled in the order of s).
Keys(s) ==
    SelectSeq([i \in 1..Len(s) |->
                  IF \E j \in 1..(i - 1) : s[j] = s[i] THEN "" ELSE s[i]],
              LAMBDA c : c # "")

validate_email_html(html, target_clients, check_accessibility, check_performance) ==
    LET structural_validation == _validate_html_structure(html)
        css_validation == _validate_css_content(html, target_clients)
        keys == Keys(target_clients)
        client_compatibility ==
            [c \in {keys[i] : i \in 1..Len(keys)} |-> _validate_for_client(html, c)]
        low == SelectSeq(target_clients,
                         LAMBDA c : client_compatibility[c].score < 70)
        accessibility_validation == _validate_accessibility(html)
        performance_validation == _validate_performance(html)
        accessibility_score ==
            IF check_accessibility THEN accessibility_validation.score ELSE 100
        performance_score ==
            IF check_performance THEN performance_validation.score ELSE 100
    IN [valid |-> structural_validation.valid,
        overall_score |-> _calculate_overall_score(
            structural_validation.score, css_validation.score,
            accessibility_score, performance_score,
            [i \in 1..Len(keys) |-> client_compatibility[keys[i]].score]),
        issues |-> IF ~structural_validation.valid
                   THEN structural_validation.issues ELSE <<>>,
        warnings |->
            css_validation.warnings
            \o [i \in 1..Len(low) |-> <<"Low compatibility with", low[i]>>]
            \o Opt(check_performance, performance_validation.warnings),
        suggestions |-> Opt(check_accessibility,
                            accessibility_validation.suggestions),
        client_compatibility |-> client_compatibility,
        accessibility_score |-> accessibility_score,
        performance_score |-> performance_score,
        details |-> [structure |-> structural_validation,
                     css |-> css_validation],
        raised |-> FALSE]

-----------------------------------------------------------------------------
(* EmailValidator.check_spam_score (validators.py).  The subject and the   *)
(* document are sequences of characters.                                   *)

UpperLetters ==
    <<"A", "B", "C", "D", "E", "F", "G", "H", "I", "J", "K", "L", "M", "N",
      "O", "P", "Q", "R", "S", "T", "U", "V", "W", "X", "Y", "Z", "Á", "Ã",
      "Ç", "É", "Í", "Ó", "Ú">>

LowerLetters ==
    <<"a", "b", "c", "d", "e", "f", "g", "h", "i", "j", "k", "l", "m", "n",
      "o", "p", "q", "r", "s", "t", "u", "v", "w", "x", "y", "z", "á", "ã",
      "ç", "é", "í", "ó", "ú">>

\* c.isupper()
IsUpper(c) == \E i \in 1..Len(UpperLetters) : UpperLetters[i] = c

\* str.lower()
LowerChars(s) ==
    [i \in 1..Len(s) |->
        IF IsUpper(s[i])
        THEN LowerLetters[CHOOSE j \in 1..Len(UpperLetters) : UpperLetters[j] = s[i]]
        ELSE s[i]]

\* `w in s`
Occurs(w, s) ==
    \E i \in 0..(Len(s) - Len(w)) : SubSeq(s, i + 1, i + Len(w)) = w

\* s.count(c) for a character c
CountChar(s, c) == Cardinality({i \in 1..Len(s) : s[i] = c})

subject_spam_words ==
    << <<"f", "r", "e", "e">>,
       <<"g", "r", "á", "t", "i", "s">>,
       <<"u", "r", "g", "e", "n", "t">>,
       <<"u", "r", "g", "e", "n", "t", "e">>,
       <<"g", "u", "a", "r", "a", "n", "t", "e", "e", "d">>,
       <<"g", "a", "r", "a", "n", "t", "i", "d", "o">>,
       <<"a", "c", "t", " ", "n", "o", "w">>,
       <<"a", "g", "o", "r", "a">>,
       <<"l", "i", "m", "i", "t", "e", "d", " ", "t", "i", "m", "e">>,
       <<"t", "e", "m", "p", "o", " ", "l", "i", "m", "i", "t", "a", "d", "o">>,
       <<"c", "l", "i", "c", "k", " ", "h", "e", "r", "e">>,
       <<"c", "l", "i", "q", "u", "e", " ", "a", "q", "u", "i">>,
       <<"b", "u", "y", " ", "n", "o", "w">>,
       <<"c", "o", "m", "p", "r", "e", " ", "a", "g", "o", "r", "a">> >>

content_spam_words ==
    << <<"v", "i", "a", "g", "r", "a">>,
       <<"c", "a", "s", "i", "n", "o">>,
       <<"l", "o", "t", "t", "e", "r", "y">>,
       <<"m", "i", "l", "l", "i", "o", "n">>,
       <<"m", "i", "l", "l", "i", "o", "n", "a", "i", "r", "e">>,
       <<"i", "n", "h", "e", "r", "i", "t", "a", "n", "c", "e">>,
       <<"n", "i", "g", "e", "r", "i", "a", "n">>,
       <<"p", "r", "i", "n", "c", "e">>,
       <<"d", "i", "p", "l", "o", "m", "a", "t">> >>

suspicious_domains ==
    << <<"b", "i", "t", ".", "l", "y">>,
       <<"t", "i", "n", "y", "u", "r", "l", ".", "c", "o", "m">>,
       <<"t", ".", "c", "o">> >>

\* A variant of the bands that a score enters only when it exceeds the bound.
RiskLevelOverBounds(spam_score) ==
    IF spam_score > 8 THEN "high"
    ELSE IF spam_score > 4 THEN "medium"
    ELSE IF spam_score > 1 THEN "low"
    ELSE "very_low"

\* The classification of the score at the end of check_spam_score.
risk_level(spam_score) ==
    IF spam_score >= 8 THEN "high"
    ELSE IF spam_score >= 4 THEN "medium"
    ELSE IF spam_score >= 1 THEN "low"
    ELSE "very_low"

\* The words of the list found in the text, in the order of the list, each
\* as a factor with the given label.
FactorsOf(list, text, label) ==
    LET found == SelectSeq(list, LAMBDA w : Occurs(w, text))
    IN [i \in 1..Len(found) |-> [label |-> label, word |-> found[i]]]

\* The labels of the factors whose text contains "assunto".
SubjectLabels ==
    {"Palavra spam no assunto", "Muitas letras maiúsculas no assunto"}

\* The lists _generate_spam_recommendations can return: list(set(...))[:6]
\* keeps six of the distinct recommendations, in the iteration order of a set
\* of strings, which differs from one process to the next.  Each list is
\* given as the set of its elements.
_generate_spam_recommendations(spam_score, factors) ==
    LET labels == {factors[i].label : i \in 1..Len(factors)}
        recommendations ==
            (IF spam_score >= 5
             THEN {"CRÍTICO: Revise completamente o conteúdo"}
             ELSE IF spam_score >= 3
             THEN {"ATENÇÃO: Reduza elementos que podem gerar spam"}
             ELSE {})
            \cup (IF labels \cap SubjectLabels # {}
                  THEN {"Revise o assunto do email"} ELSE {})
            \cup (IF "Muitas letras maiúsculas no assunto" \in labels
                  THEN {"Reduza o uso de letras maiúsculas"} ELSE {})
            \cup (IF "Muitos pontos de exclamação" \in labels
                  THEN {"Use pontos de exclamação com moderação"} ELSE {})
            \cup {"Use linguagem natural e profissional",
                  "Evite promessas exageradas",
                  "Mantenha equilíbrio entre texto e imagens",
                  "Teste o email antes de enviar"}
    IN { kept \in SUBSET recommendations :
           Cardinality(kept) = Min(6, Cardinality(recommendations)) }

\* The result of check_spam_score with the recommendations it can return.
check_spam_score(html, subject) ==
    LET subject_lower == LowerChars(subject)
        subject_factors ==
            FactorsOf(subject_spam_words, subject_lower,
                      "Palavra spam no assunto")
        capitals == Cardinality({i \in 1..Len(subject) : IsUpper(subject[i])})
        many_capitals == subject # <<>> /\ 2 * capitals > Len(subject)
        html_lower == LowerChars(html)
        content_factors ==
            FactorsOf(content_spam_words, html_lower,
                      "Palavra spam no conteúdo")
        exclamation_count == CountChar(html, "!")
        domain_factors ==
            FactorsOf(suspicious_domains, html_lower,
                      "Link encurtado detectado")
        spam_score ==
            Len(subject_factors) + (IF many_capitals THEN 2 ELSE 0)
            + 3 * Len(content_factors)
            + (IF exclamation_count > 5 THEN 1 ELSE 0)
            + 2 * Len(domain_factors)
        factors ==
            subject_factors
            \o Opt(many_capitals,
                   <<[label |-> "Muitas letras maiúsculas no assunto",
                      word |-> <<>>]>>)
            \o content_factors
            \o Opt(exclamation_count > 5,
                   <<[label |-> "Muitos pontos de exclamação", word |-> <<>>]>>)
            \o domain_factors
    IN [spam_score |-> spam_score,
        risk_level |-> risk_level(spam_score),
        factors |-> factors,
        recommendations |-> _generate_spam_recommendations(spam_score, factors)]

-----------------------------------------------------------------------------
(* EmailGenerator (email_generator.py): the choice of the template.        *)

\* Of each industry's entry the primary colour is kept.
InitIndustryTemplates ==
    [i \in {"saude", "tecnologia", "educacao", "ecommerce", "financas", "geral"} |->
        [primary |-> CASE i = "saude" -> "#059669"
                       [] i = "tecnologia" -> "#2563eb"
                       [] i = "educacao" -> "#8b5cf6"
                       [] i = "ecommerce" -> "#16a34a"
                       [] i = "financas" -> "#1f2937"
                       [] OTHER -> "#6366f1"]]

InitToneStyles ==
    [t \in {"professional", "friendly", "urgent", "luxury", "casual"} |->
        [font_family |->
            CASE t = "professional" ->
                    "-apple-system, BlinkMacSystemFont, 'Segoe UI', sans-serif"
              [] t = "friendly" ->
                    "'Poppins', -apple-system, BlinkMacSystemFont, sans-serif"
              [] t = "urgent" ->
                    "'Source Sans Pro', -apple-system, BlinkMacSystemFont, sans-serif"
              [] t = "luxury" -> "'Times New Roman', Times, serif"
              [] OTHER -> "'Nunito', -apple-system, BlinkMacSystemFont, sans-serif",
         border_radius |-> CASE t = "professional" -> "12px"
                             [] t = "friendly" -> "20px"
                             [] t = "urgent" -> "8px"
                             [] t = "luxury" -> "6px"
                             [] OTHER -> "24px",
         shadow_intensity |-> CASE t = "professional" -> "0.25"
                                [] t = "friendly" -> "0.2"
                                [] t = "urgent" -> "0.35"
                                [] t = "luxury" -> "0.2"
                                [] OTHER -> "0.15",
         letter_spacing |-> CASE t = "professional" -> "normal"
                              [] t = "friendly" -> "0.3px"
                              [] t = "urgent" -> "0.5px"
                              [] t = "luxury" -> "1px"
                              [] OTHER -> "0.2px"]]

\* A prompt is the set of the keywords it contains.  The lookup of the
\* industry's keywords raises KeyError for an industry the table lacks.
_analyze_prompt(templates, prompt, industry) ==
    [raised |-> industry \notin DOMAIN templates,
     key_elements |->
        Opt("oferta" \in prompt, <<"discount_offer">>)
        \o Opt("urgente" \in prompt, <<"urgency">>),
     target_audience |-> IF "empresa" \in prompt THEN "business" ELSE "geral"]

\* template_config["tone_style"] is the table's own entry, not a copy: the
\* assignments to it are assignments to the table.  Returns the configuration
\* and the table after the call.
_select_optimal_template(templates, styles, industry, tone, analysis) ==
    LET key == IF tone \in DOMAIN styles THEN tone ELSE "professional"
        urgent == \E i \in 1..Len(analysis.key_elements) :
                     analysis.key_elements[i] = "urgency"
        discount == \E i \in 1..Len(analysis.key_elements) :
                       analysis.key_elements[i] = "discount_offer"
        business == analysis.target_audience = "business"
        s1 == IF urgent
              THEN [styles[key] EXCEPT !.border_radius = "8px",
                                       !.shadow_intensity = "0.4"]
              ELSE styles[key]
        s2 == IF business
              THEN [s1 EXCEPT !.font_family = "'Times New Roman', Times, serif"]
              ELSE s1
    IN [template_config |->
            [industry |-> IF industry \in DOMAIN templates
                          THEN templates[industry] ELSE templates["geral"],
             tone_style |-> s2,
             customizations |->
                Opt(urgent, <<"urgency_styling">>)
                \o Opt(discount, <<"discount_emphasis">>)
                \o Opt(business, <<"professional_styling">>)],
        tone_styles |-> [styles EXCEPT ![key] = s2]]

_generate_fallback_email(templates, industry) ==
    [generator |-> "fallback-generator",
     template_config |->
        [industry |-> IF industry \in DOMAIN templates
                      THEN templates[industry] ELSE templates["geral"],
         tone_style |-> [font_family |-> "", border_radius |-> "",
                         shadow_intensity |-> "", letter_spacing |-> ""],
         customizations |-> <<>>]]

\* Returns the result and the tone-style table after the call.
generate_ultra_modern_email(templates, styles, prompt, industry, tone) ==
    LET prompt_analysis == _analyze_prompt(templates, prompt, industry)
        sel == _select_optimal_template(templates, styles, industry, tone,
                                        prompt_analysis)
    IN IF prompt_analysis.raised
       THEN [result |-> _generate_fallback_email(templates, industry),
             tone_styles |-> styles]
       ELSE [result |-> [generator |-> "ultra-modern-email-generator",
                         template_config |-> sel.template_config],
             tone_styles |-> sel.tone_styles]

-----------------------------------------------------------------------------
(* HTMLOptimizer (html_optimizer.py).                                      *)

\* The estimate in thousandths of a millisecond: 100 ms, one per 1000
\* characters, 10 per table, 5 per gradient, shadow or transform.
_estimate_render_time(html) ==
    LET base_time == 100000
        size_factor == StrLen(html)
        table_count == Count(Lower(html), "<table")
        complexity_factor == table_count * 10000
        css_complexity == Count(html, "gradient") + Count(html, "shadow")
                          + Count(html, "transform")
        css_factor == css_complexity * 5000
    IN base_time + size_factor + complexity_factor + css_factor

_calculate_complexity_score(html) ==
    LET elements == Count(Lower(html), "<")
        table_tags == Count(Lower(html), "<table")
        css_properties == Count(html, ":")
        complexity == elements + (table_tags * 2) + css_properties
    IN IF complexity < 50 THEN 1
       ELSE IF complexity < 150 THEN 2
       ELSE IF complexity < 300 THEN 3
       ELSE 4

\* A variant of the analysis that counts the elements as the pieces the
\* document falls into when split at "<".
AnalysisCountingPieces(html) ==
    [has_doctype |-> Contains(Upper(html), "<!DOCTYPE"),
     has_html_tag |-> Contains(Lower(html), "<html"),
     has_head |-> Contains(Lower(html), "<head"),
     has_body |-> Contains(Lower(html), "<body"),
     has_meta_charset |-> Contains(Lower(html), "charset"),
     has_meta_viewport |-> Contains(Lower(html), "viewport"),
     has_title |-> Contains(Lower(html), "<title"),
     uses_tables |-> Contains(Lower(html), "<table"),
     uses_css |-> Contains(Lower(html), "<style")
                  \/ Contains(Lower(html), "style="),
     has_images |-> Contains(Lower(html), "<img"),
     has_links |-> Contains(Lower(html), "<a"),
     estimated_render_time |-> _estimate_render_time(html),
     complexity_score |-> _calculate_complexity_score(html),
     element_count |-> Count(Lower(html), "<") + 1,
     inline_styles_count |-> Count(html, "style="),
     css_classes_count |-> Count(html, "class="),
     table_count |-> Count(Lower(html), "<table"),
     image_count |-> Count(Lower(html), "<img"),
     link_count |-> Count(Lower(html), "<a"),
     raised |-> FALSE]

\* The descriptor of a document; raised tells whether an exception left the
\* function (the substring tests, counts and len of a str raise none).
_analyze_html_structure(html) ==
    [has_doctype |-> Contains(Upper(html), "<!DOCTYPE"),
     has_html_tag |-> Contains(Lower(html), "<html"),
     has_head |-> Contains(Lower(html), "<head"),
     has_body |-> Contains(Lower(html), "<body"),
     has_meta_charset |-> Contains(Lower(html), "charset"),
     has_meta_viewport |-> Contains(Lower(html), "viewport"),
     has_title |-> Contains(Lower(html), "<title"),
     uses_tables |-> Contains(Lower(html), "<table"),
     uses_css |-> Contains(Lower(html), "<style")
                  \/ Contains(Lower(html), "style="),
     has_images |-> Contains(Lower(html), "<img"),
     has_links |-> Contains(Lower(html), "<a"),
     estimated_render_time |-> _estimate_render_time(html),
     complexity_score |-> _calculate_complexity_score(html),
     element_count |-> Count(Lower(html), "<"),
     inline_styles_count |-> Count(html, "style="),
     css_classes_count |-> Count(html, "class="),
     table_count |-> Count(Lower(html), "<table"),
     image_count |-> Count(Lower(html), "<img"),
     link_count |-> Count(Lower(html), "<a"),
     raised |-> FALSE]

-----------------------------------------------------------------------------
(* HTMLOptimizer.validate_and_optimize_html (html_optimizer.py).           *)
(*                                                                         *)
(* The documents given to it here are written in their natural case and    *)
(* are made of tags, closed style blocks and MSO conditional comments: a   *)
(* plain comment or a style attribute, which _optimize_for_size would      *)
(* rewrite, is not among them.  Further texts:                             *)
(*   img_alt_empty `<img src="a.png" alt="">`,                             *)
(*   img_data_alt `<img src="a.png" data-alt="x">`,                        *)
(*   img_fixed `<img src="a.png" alt="Imagem">`,                           *)
(*   table_outlook `<table cellpadding="0" cellspacing="0" border="0">`,   *)
(*   rule_gmail `p{margin:0 !important; }`, sp one space, nl one newline,  *)
(*   nl_indent a newline and four spaces,                                  *)
(*   mso_style `<p style="mso-line-height-rule:exactly">`, viewport_fix    *)
(*   `<meta name="viewport" content="width=device-width,                   *)
(*   initial-scale=1.0">`.                                                 *)

Issue(label, img) == [label |-> label, img |-> img]

\* The element of a set of one element: `Only({e(x) : x \in {v}})` is e with
\* x standing for the value v, a local variable that is assigned once.
Only(S) == CHOOSE x \in S : TRUE

\* The matches of <img[^>]*>, left to right, each as the kind of its text.
ImageTags(html) ==
    Flatten([i \in 1..Len(html) |->
        IF "<img" \in DOMAIN Words(html[i].k)
        THEN Repeat(<<html[i].k>>, html[i].n) ELSE <<>>])

\* `"alt=" in img.lower()` for the text of kind k
HasAltText(k) == "alt=" \in DOMAIN Words(k)

\* sum(len(css) for css in css_matches)
TotalCssSize(html) ==
    LET css_matches == StyleMatches(html)
    IN SumSeq([i \in 1..Len(css_matches) |-> StrLen(css_matches[i].content)])

_validate_html_for_emails(html, target_clients) ==
    LET outlook == \E i \in 1..Len(target_clients) : target_clients[i] = "outlook"
        gmail == \E i \in 1..Len(target_clients) : target_clients[i] = "gmail"
        without_alt == SelectSeq(ImageTags(html), LAMBDA k : ~HasAltText(k))
        issues ==
            Opt(~Contains(Upper(html), "<!DOCTYPE"),
                <<Issue("Missing DOCTYPE declaration", "")>>)
            \o Opt(~Contains(Lower(html), "<html"),
                   <<Issue("Missing <html> tag", "")>>)
            \o Opt(~Contains(Lower(html), "charset"),
                   <<Issue("Missing charset meta tag", "")>>)
            \o [i \in 1..Len(without_alt) |->
                   Issue("Image missing alt attribute", without_alt[i])]
        warnings ==
            Opt(~Contains(Lower(html), "viewport"),
                <<"Missing viewport meta tag">>)
            \o Opt(outlook /\ ~Contains(Lower(html), "<table"),
                   <<"Outlook prefers table-based layouts">>)
            \o Opt(outlook /\ Contains(Lower(html), "border-radius"),
                   <<"Outlook doesn't support border-radius">>)
            \o Opt(outlook /\ Contains(Lower(html), "box-shadow"),
                   <<"Outlook doesn't support box-shadow">>)
            \o Opt(StrLen(html) > 102400,
                   <<"HTML size exceeds 100KB, may affect loading">>)
            \o Opt(TotalCssSize(html) > 50000, <<"CSS size exceeds 50KB">>)
        suggestions ==
            Opt(gmail /\ Contains(Lower(html), "<style")
                      /\ ~Contains(Lower(html), "!important"),
                <<"Consider using !important for Gmail compatibility">>)
    IN [valid |-> Len(issues) = 0,
        issues |-> issues,
        warnings |-> warnings,
        suggestions |-> suggestions,
        score |-> Max(0, 100 - Len(issues) * 20 - Len(warnings) * 5)]

RECURSIVE MapKinds(_, _)
\* The text s with every piece of a kind in the domain of f replaced by the
\* piece f gives for it, inside style blocks too.
MapKinds(s, f) ==
    [i \in 1..Len(s) |->
        [s[i] EXCEPT !.k = IF @ \in DOMAIN f THEN f[@] ELSE @,
                     !.css = MapKinds(@, f)]]

\* What add_alt returns for the matches of <img([^>]*?)(?<!alt=")>: the tag
\* with alt="Imagem" when its attributes do not contain "alt=", the match
\* itself otherwise.
AddAlt == [img |-> "img_fixed"]

\* A variant of add_alt that leaves every tag as it is.
FixesWithoutAlt(html, issues) == html

\* Adds the doctype when its issue was reported.
FixDoctype(html, labels) ==
    IF "Missing DOCTYPE declaration" \in labels
       /\ ~Contains(Upper(html), "<!DOCTYPE")
    THEN <<Tok("doctype", 1), Tok("nl", 1)>> \o html
    ELSE html

\* Adds the meta tag of the given kind after <head> when the issue of that
\* label was reported.
FixMeta(html, labels, label, word, kind) ==
    IF label \in labels
       /\ ~Contains(Lower(html), word)
       /\ Contains(Lower(html), "<head")
    THEN AfterHead(html, <<Tok("nl_indent", 1), Tok(kind, 1)>>)
    ELSE html

\* The labels tested are those of the issues: "Missing viewport meta tag" is
\* a warning of the validation and is never among them.
_apply_automatic_fixes(html, issues) ==
    LET labels == {issues[i].label : i \in 1..Len(issues)}
    IN Only({ Only({ Only({ MapKinds(with_viewport, AddAlt) :
          with_viewport \in {FixMeta(with_charset, labels,
                                     "Missing viewport meta tag",
                                     "viewport", "viewport_fix")} }) :
          with_charset \in {FixMeta(with_doctype, labels,
                                    "Missing charset meta tag",
                                    "charset", "charset")} }) :
          with_doctype \in {FixDoctype(html, labels)} })

WhitespaceKinds == {"sp", "nl", "nl_indent", "pad"}

RECURSIVE MinifyWhitespace(_)
\* re.sub(r'\s+', ' ', html): every run of whitespace becomes one space.
MinifyWhitespace(s) ==
    IF s = <<>> THEN <<>>
    ELSE IF Head(s).k \in WhitespaceKinds
         THEN IF Len(s) > 1 /\ s[2].k \in WhitespaceKinds
              THEN MinifyWhitespace(Tail(s))
              ELSE <<Tok("sp", 1)>> \o MinifyWhitespace(Tail(s))
         ELSE <<Head(s)>> \o MinifyWhitespace(Tail(s))

\* The pieces that begin with "<" and end with ">".
TagLike(t) == "<" \in DOMAIN Words(t.k)

RECURSIVE JoinTagsFrom(_, _)
\* The pieces of s from the i-th on, without the single spaces that lie
\* between two tags.
JoinTagsFrom(s, i) ==
    IF i > Len(s) THEN <<>>
    ELSE (IF /\ s[i].k = "sp"
             /\ 1 < i /\ i < Len(s)
             /\ TagLike(s[i - 1]) /\ TagLike(s[i + 1])
          THEN <<>> ELSE <<s[i]>>)
         \o JoinTagsFrom(s, i + 1)

\* re.sub(r'>\s+<', '><', html), after the runs were made single spaces.
JoinTags(s) == JoinTagsFrom(s, 1)

\* re.sub(r'\s+[a-zA-Z-]+=""', '', html): the empty alt leaves its tag.
RemoveEmptyAttributes == [img_alt_empty |-> "img"]

\* _optimize_inline_css finds no style attribute in these documents and
\* their comments are conditional, so that neither changes the text.
_optimize_for_size(html) ==
    Only({ Only({
        [html |-> without_empty,
         optimizations |->
            Opt(StrLen(minified) < StrLen(html), <<"Minified whitespace">>)
            \o Opt(StrLen(without_empty) < StrLen(minified),
                   <<"Removed empty attributes">>),
         size_reduction |-> StrLen(html) - StrLen(without_empty)] :
      without_empty \in {MapKinds(minified, RemoveEmptyAttributes)} }) :
      minified \in {JoinTags(MinifyWhitespace(html))} })

\* re.sub of <table(?![^>]*cellpadding)(?![^>]*cellspacing)
OutlookTables ==
    [table |-> "table_outlook", table_role |-> "table_role_outlook"]

\* optimized.replace("}", " !important; }")
GmailBraces == [rule |-> "rule_gmail"]

\* The label "Added Outlook table attributes" is never given: the text of
\* the pattern is not part of any document.
_optimize_for_client(html, client) ==
    CASE client = "outlook" ->
            LET no_mso == ~Contains(Lower(html), "mso")
            IN Only({ [html |-> MapKinds(with_mso, OutlookTables),
                       optimizations |->
                           Opt(no_mso, <<"Added MSO conditionals">>)] :
                 with_mso \in {IF no_mso
                               THEN AfterHead(html, <<Tok("mso_block", 1)>>)
                               ELSE html} })
      [] client = "gmail" ->
            IF Contains(html, "<style") /\ ~Contains(html, "!important")
            THEN [html |-> MapKinds(html, GmailBraces),
                  optimizations |-> <<"Added !important for Gmail">>]
            ELSE [html |-> html, optimizations |-> <<>>]
      [] OTHER -> [html |-> html, optimizations |-> <<>>]

RECURSIVE OptimizeForClients(_, _)
\* `for client in target_clients`
OptimizeForClients(html, clients) ==
    IF clients = <<>> THEN [html |-> html, optimizations |-> <<>>]
    ELSE Only({ Only({
            [html |-> rest.html,
             optimizations |-> r.optimizations \o rest.optimizations] :
           rest \in {OptimizeForClients(r.html, Tail(clients))} }) :
           r \in {_optimize_for_client(html, Head(clients))} })

\* 80, plus int(alt_ratio * 20), plus 5 for a header tag and 5 for "color:",
\* at most 100.  For the counts that occur, int(a / b * 20) in binary64
\* equals (20 * a) \div b.
_calculate_accessibility_score(html) ==
    LET img_tags == ImageTags(html)
        img_with_alt == SelectSeq(img_tags, LAMBDA k : "alt=" \in DOMAIN Words(k))
        headers == Count(Lower(html), "<h1") + Count(Lower(html), "<h2")
    IN Min(100,
           80 + (IF img_tags # <<>>
                 THEN (20 * Len(img_with_alt)) \div Len(img_tags) ELSE 0)
              + (IF headers > 0 THEN 5 ELSE 0)
              + (IF Contains(html, "color:") THEN 5 ELSE 0))

\* The result without quality_metrics, client_compatibility,
\* performance_score and processing_time.  No step raises on a str, so the
\* fallback of the except branch is not returned.
validate_and_optimize_html(html, target_clients, fix_issues, optimize_for_size) ==
    Only({ Only({ Only({ Only({ Only({
        [valid |-> final_validation.valid,
         optimized_html |-> client_optimization.html,
         original_size |-> StrLen(html),
         optimized_size |-> StrLen(client_optimization.html),
         size_reduction |-> StrLen(html) - StrLen(client_optimization.html),
         issues_found |-> validation_results.issues,
         issues_fixed |-> Len(validation_results.issues)
                          - Len(final_validation.issues),
         optimizations_applied |-> size_optimization.optimizations
                                   \o client_optimization.optimizations,
         accessibility_score |->
             _calculate_accessibility_score(client_optimization.html),
         analysis |-> _analyze_html_structure(html),
         validation_details |-> final_validation,
         raised |-> FALSE] :
      final_validation \in
          {_validate_html_for_emails(client_optimization.html, target_clients)} }) :
      client_optimization \in
          {OptimizeForClients(size_optimization.html, target_clients)} }) :
      size_optimization \in
          {IF optimize_for_size THEN _optimize_for_size(corrected_html)
           ELSE [html |-> corrected_html, optimizations |-> <<>>,
                 size_reduction |-> 0]} }) :
      corrected_html \in
          {IF fix_issues /\ validation_results.issues # <<>>
           THEN _apply_automatic_fixes(html, validation_results.issues)
           ELSE html} }) :
      validation_results \in {_validate_html_for_emails(html, target_clients)} })

-----------------------------------------------------------------------------
(* AICoordinator (ai_coordinator.py).                                      *)
(*                                                                         *)
(* A prompt is the record [head, rest]: its first 100 characters and what  *)
(* follows them.  A piece of html is a record with a field kind: "llm" is  *)
(* text the language model wrote (doc tells whether it contains both       *)
(* <!DOCTYPE and <html), "p" that text inside <p>...</p>, "empty" the      *)
(* empty string, "null" the JSON null, "fallback_content" the content of   *)
(* the fallback email and "template" a document built by the template.     *)

models ==
    [primary |-> "anthropic/claude-3.5-sonnet",
     fallbacks |-> <<"anthropic/claude-3-sonnet-20240229",
                     "anthropic/claude-3-haiku-20240307",
                     "openai/gpt-4-turbo-preview">>]

\* A variant of the list that tries the fallbacks before the primary model.
FallbacksBeforePrimary == models.fallbacks \o <<models.primary>>

models_to_try == <<models.primary>> \o models.fallbacks

\* The industries that have a colour scheme of their own.
color_schemes == {"saude", "tecnologia", "ecommerce", "geral"}

\* A variant of the template that returns the content without the document
\* around it.
TemplateWithoutShell(subject, content, industry, tone, urgency) == content

\* The document the f-string gives: it substitutes the subject, the content
\* and the colours of the industry (the colours of "geral" for an industry
\* without scheme); tone and urgency are not used.
_build_ultra_modern_template(subject, content, industry, tone, urgency) ==
    [kind |-> "template",
     subject |-> subject,
     content |-> content,
     colors |-> IF industry \in color_schemes THEN industry ELSE "geral"]

\* `"<!DOCTYPE" in html and "<html" in html`
IsDocument(html) ==
    CASE html.kind = "template" -> TRUE
      [] html.kind = "llm" -> html.doc
      [] OTHER -> FALSE

\* dict.get(key, default) on a parsed JSON object, whose field keys holds the
\* keys that are present.
Get(data, key, default) == IF key \in data.keys THEN data[key] ELSE default

\* The content of a reply is null, text that is not JSON (lt tells whether it
\* contains "<") or JSON text.  json.loads returns the value as it is, a list
\* included; text that is not JSON is wrapped by the except branch; null
\* makes `"<" in content` raise inside that branch.
_parse_email_response(content) ==
    CASE content.form = "null" -> [raised |-> TRUE]
      [] content.form = "json" -> [raised |-> FALSE, data |-> content.value]
      [] OTHER ->
            [raised |-> FALSE,
             data |-> [type |-> "dict",
                       keys |-> {"subject", "preview_text", "html", "text"},
                       subject |-> "Email Gerado por IA",
                       preview_text |-> "Conteúdo criado automaticamente",
                       html |-> IF content.lt
                                THEN [kind |-> "llm", doc |-> content.doc]
                                ELSE [kind |-> "p", doc |-> FALSE]]]

\* raised: a list has no get, and `in` on None raises.
_enhance_html_with_modern_templates(email_data, industry, tone, urgency) ==
    IF email_data.type # "dict" THEN [raised |-> TRUE]
    ELSE LET html == Get(email_data, "html", [kind |-> "empty"])
             subject == Get(email_data, "subject", "Email")
         IN IF html.kind = "null" THEN [raised |-> TRUE]
            ELSE [raised |-> FALSE,
                  html |-> IF IsDocument(html) THEN html
                           ELSE _build_ultra_modern_template(
                                    subject, html, industry, tone, urgency)]

\* The fallback email quotes prompt[:100].
AICoordinator_generate_fallback_email(prompt, industry, tone) ==
    [subject |-> "Email Gerado por IA",
     preview_text |-> "Conteúdo personalizado criado automaticamente",
     html |-> _build_ultra_modern_template(
                  "Email Gerado por IA",
                  [kind |-> "fallback_content", based_on |-> prompt.head],
                  industry, tone, "medium"),
     model |-> "fallback-generator",
     quality_score |-> 85,
     raised |-> FALSE]

\* Whether the reply to one request makes _call_ai_with_fallbacks go on to
\* the next model: the request raised, the status is not 200, or reading the
\* body raised (no "choices" in it).
AttemptFails(reply) ==
    \/ reply.kind = "exception"
    \/ reply.status_code # 200
    \/ reply.body.shape # "ok"

\* What _call_ai_with_fallbacks returns for a reply that does not fail.
AiResponse(reply, model) ==
    [content |-> reply.body.content, model |-> model, usage |-> reply.body.usage]

\* generate_ultra_modern_email from the return of _call_ai_with_fallbacks on:
\* called is [raised |-> TRUE] when every model failed, and carries the
\* response otherwise.  Every exception of the try block gives the fallback
\* email; a usage of null makes `.get("total_tokens", 0)` raise.
generate_ultra_modern_email_after_call(called, prompt, industry, tone, urgency) ==
    IF called.raised THEN AICoordinator_generate_fallback_email(prompt, industry, tone)
    ELSE LET ai_response == called.response
             parsed == _parse_email_response(ai_response.content)
             enhanced == _enhance_html_with_modern_templates(
                             parsed.data, industry, tone, urgency)
         IN IF parsed.raised \/ enhanced.raised \/ ai_response.usage = "null"
            THEN AICoordinator_generate_fallback_email(prompt, industry, tone)
            ELSE [subject |-> Get(parsed.data, "subject", "Email Ultra-Moderno"),
                  preview_text |-> Get(parsed.data, "preview_text",
                                       "Conteúdo criado com IA"),
                  html |-> enhanced.html,
                  model |-> ai_response.model,
                  quality_score |-> 95,
                  raised |-> FALSE]

-----------------------------------------------------------------------------
(* ModernTemplateEngine (templates.py).                                    *)
(*                                                                         *)
(* A value of the config is a record with a field type: "absent" for a key *)
(* the dict does not have, "str" with the text in v, "number" and "list".  *)
(* Content and subject are sequences of pieces of text, " " being one      *)
(* whitespace character.                                                   *)

Absent == [type |-> "absent"]
Str(v) == [type |-> "str", v |-> v]

\* config.get(key, default)
ConfigGet(config, key, default) ==
    IF config[key].type = "absent" THEN default ELSE config[key]

\* A list cannot be the key of a dict lookup.
Hashable(value) == value.type # "list"

\* The template text behind each name: corporate_elegant returns the text of
\* minimal_premium and creative_dynamic that of ultra_modern.
base_templates ==
    [ultra_modern |-> "ultra_modern",
     minimal_premium |-> "minimal_premium",
     corporate_elegant |-> "minimal_premium",
     creative_dynamic |-> "ultra_modern"]

industry_styles ==
    [saude |-> [template |-> "ultra_modern", primary_color |-> Str("#059669"),
                border_radius |-> "12px"],
     tecnologia |-> [template |-> "creative_dynamic",
                     primary_color |-> Str("#2563eb"), border_radius |-> "8px"],
     educacao |-> [template |-> "corporate_elegant",
                   primary_color |-> Str("#8b5cf6"), border_radius |-> "16px"],
     ecommerce |-> [template |-> "ultra_modern",
                    primary_color |-> Str("#16a34a"), border_radius |-> "10px"],
     geral |-> [template |-> "minimal_premium",
                primary_color |-> Str("#6366f1"), border_radius |-> "12px"]]

\* urgency_configs.get(urgency_level, urgency_configs["medium"])
_get_urgency_elements(urgency_level) ==
    IF urgency_level.type = "str" /\ urgency_level.v \in {"high", "low"}
    THEN [level |-> urgency_level.v, show_countdown |-> urgency_level.v = "high"]
    ELSE [level |-> "medium", show_countdown |-> FALSE]

\* The variables of the template.  keys holds the names that are defined;
\* the except branch returns subject, content, the two colours and the text
\* of the button only.  raised records that the branch was taken.
_prepare_template_variables(content, subject, config, industry_style) ==
    LET urgency_level == ConfigGet(config, "urgency", Str("medium"))
    IN IF ~Hashable(urgency_level)
       THEN [keys |-> {"subject", "content", "primary_color", "accent_color",
                       "cta_text"},
             subject |-> subject,
             content |-> content,
             primary_color |-> Str("#6366f1"),
             cta_text |-> Str("Saiba Mais"),
             raised |-> TRUE]
       ELSE [keys |-> {"subject", "content", "preview_text", "primary_color",
                       "accent_color", "font_family", "border_radius",
                       "header_gradient", "cta_text", "cta_style",
                       "trust_elements", "urgency_elements", "industry",
                       "tone", "icon", "container_width", "mobile_padding",
                       "desktop_padding", "dark_mode_enabled", "dark_bg_color",
                       "dark_text_color"},
             subject |-> subject,
             content |-> content,
             primary_color |-> ConfigGet(config, "primary_color",
                                         industry_style.primary_color),
             border_radius |-> industry_style.border_radius,
             cta_text |-> ConfigGet(config, "cta_text", Str("Saiba Mais")),
             urgency_elements |-> _get_urgency_elements(urgency_level),
             raised |-> FALSE]

\* Whether Template(base_template).render raises: the ultra_modern text reads
\* urgency_elements.show_countdown, which raises when urgency_elements is
\* not defined, and calls primary_color.replace, which raises when the value
\* is not a string.  The minimal_premium text only prints variables, and a
\* variable that is not defined prints as nothing.
RenderRaises(text, variables) ==
    /\ text = "ultra_modern"
    /\ \/ "urgency_elements" \notin variables.keys
       \/ variables.primary_color.type # "str"

\* template.render(**template_vars)
Render(text, variables) ==
    [kind |-> "rendered",
     template |-> text,
     subject |-> variables.subject,
     content |-> variables.content,
     primary_color |-> variables.primary_color,
     cta_text |-> variables.cta_text,
     defined |-> variables.keys]

RECURSIVE CollapseWhitespace(_)
\* re.sub(r'\s+', ' ', html)
CollapseWhitespace(text) ==
    IF text = <<>> THEN <<>>
    ELSE IF Head(text) = " "
         THEN IF Len(text) > 1 /\ text[2] = " "
              THEN CollapseWhitespace(Tail(text))
              ELSE <<" ">> \o CollapseWhitespace(Tail(text))
         ELSE <<Head(text)>> \o CollapseWhitespace(Tail(text))

RECURSIVE DropSemicolonBeforeBrace(_)
\* re.sub(r';\s*}', '}', html)
DropSemicolonBeforeBrace(text) ==
    IF text = <<>> THEN <<>>
    ELSE IF Head(text) = ";"
         THEN LET after == Tail(text)
                  spaces == CHOOSE n \in 0..Len(after) :
                               /\ \A i \in 1..n : after[i] = " "
                               /\ n = Len(after) \/ after[n + 1] # " "
              IN IF spaces < Len(after) /\ after[spaces + 1] = "}"
                 THEN DropSemicolonBeforeBrace(SubSeq(after, spaces + 1, Len(after)))
                 ELSE <<";">> \o DropSemicolonBeforeBrace(after)
         ELSE <<Head(text)>> \o DropSemicolonBeforeBrace(Tail(text))

\* The two substitutions, on the subject and the content inside the document
\* (the texts given contain no css comment, which the first substitution of
\* the function removes).
_apply_final_optimizations(html, config) ==
    [html EXCEPT
       !.subject = DropSemicolonBeforeBrace(CollapseWhitespace(@)),
       !.content = DropSemicolonBeforeBrace(CollapseWhitespace(@))]

\* A variant of the fallback shell that leaves the content out.
FallbackShellWithoutContent(content, subject, config) ==
    [kind |-> "fallback_shell",
     subject |-> subject,
     content |-> <<>>,
     cta_text |-> ConfigGet(config, "cta_text", Str("Saiba Mais"))]

\* The f-string of the fallback shell.
_generate_fallback_template(content, subject, config) ==
    [kind |-> "fallback_shell",
     subject |-> subject,
     content |-> content,
     cta_text |-> ConfigGet(config, "cta_text", Str("Saiba Mais"))]

\* raised_in records the steps that raised: "style" the lookup of the
\* style, "variables" the preparation of the variables (caught inside
\* _prepare_template_variables), "render" the rendering.
apply_ultra_modern_template(content, subject, config) ==
    LET industry == ConfigGet(config, "industry", Str("geral"))
    IN IF ~Hashable(industry)
       THEN [html |-> _generate_fallback_template(content, subject, config),
             raised |-> FALSE,
             raised_in |-> {"style"}]
       ELSE LET industry_style ==
                    IF industry.type = "str" /\ industry.v \in DOMAIN industry_styles
                    THEN industry_styles[industry.v]
                    ELSE industry_styles["geral"]
                base_template == base_templates[industry_style.template]
                template_vars == _prepare_template_variables(
                                     content, subject, config, industry_style)
                in_variables == IF template_vars.raised THEN {"variables"} ELSE {}
            IN IF RenderRaises(base_template, template_vars)
               THEN [html |-> _generate_fallback_template(content, subject, config),
                     raised |-> FALSE,
                     raised_in |-> in_variables \cup {"render"}]
               ELSE [html |-> _apply_final_optimizations(
                                  Render(base_template, template_vars), config),
                     raised |-> FALSE,
                     raised_in |-> in_variables]

-----------------------------------------------------------------------------
(* The project store and POST /modify (mongodb_client.py, app.py).  None   *)
(* is the string "None"; the collections are connected, as after the       *)
(* startup of the service.                                                 *)

MaxRequests == 2    \* most requests to the project store in one behaviour

RequestIds == 1..MaxRequests

\* The document of the project in the collection "projects".
InitProject ==
    [content |-> [html |-> <<Tok("html", 1), Tok("head", 1),
                             StyleTok(<<Tok("rule", 1)>>), Tok("body", 1),
                             Tok("h1", 1)>>,
                  subject |-> "Oferta",
                  text |-> "Oferta da semana",
                  previewText |-> "Veja"],
     metadata |-> [version |-> 1, industry |-> "geral",
                   lastModification |-> "None"]]

\* _parse_modification_response: the JSON value of the content, or the
\* content itself as the html when it is not JSON.
_parse_modification_response(content) ==
    IF content.form = "json" THEN content.value
    ELSE [type |-> "dict", keys |-> {"html", "changes_made"},
          html |-> content.text, subject |-> "None", text |-> "None"]

\* modify_email_intelligently once _call_ai_with_fallbacks has returned the
\* reply or raised: the except branch returns the html it was given, without
\* the keys subject and text.  A JSON value that is a list has no get.
modify_email_intelligently(html, reply) ==
    LET modified_content == _parse_modification_response(reply.content)
    IN IF reply.kind = "raised" \/ modified_content.type # "dict"
       THEN [keys |-> {"html", "modifications_applied", "confidence",
                       "processing_time"},
             html |-> html, subject |-> "None", text |-> "None",
             modifications_applied |-> <<"Erro na modificação">>,
             confidence |-> 10]
       ELSE [keys |-> {"html", "subject", "text", "modifications_applied",
                       "confidence", "processing_time"},
             html |-> Get(modified_content, "html", html),
             subject |-> Get(modified_content, "subject", "None"),
             text |-> Get(modified_content, "text", "None"),
             modifications_applied |-> <<>>,
             confidence |-> 92]

\* The document after update_one({"$set": update_data}) of
\* update_project_content; modification_details without currentVersion
\* counts from version 1.
update_project_content(project, new_content, modification_details) ==
    LET current_version ==
            IF "currentVersion" \in DOMAIN modification_details
            THEN modification_details.currentVersion ELSE 1
    IN [project EXCEPT
          !.content = [html |-> new_content.html,
                       subject |-> new_content.subject,
                       text |-> new_content.text,
                       previewText |-> new_content.previewText],
          !.metadata.version = current_version + 1,
          !.metadata.lastModification = modification_details]

\* The arguments modify_email gives to update_project_content, from the
\* project it read, the result of the modification and the optimized html
\* (confidence in hundredths).
ModifyUpdateArguments(project, result, optimized_result) ==
    [new_content |->
        [html |-> optimized_result.html,
         subject |-> Get(result, "subject", project.content.subject),
         text |-> Get(result, "text", ""),
         previewText |-> project.content.previewText],
     modification_details |->
        [currentVersion |-> project.metadata.version,
         confidence |-> Get(result, "confidence", 90)]]

-----------------------------------------------------------------------------
(* PerformanceMonitor (performance.py).                                    *)

MaxHttp == 3            \* most HTTP requests in one behaviour
MaxClock == 1           \* last millisecond of the clock
MaxHistory == 2         \* stands for maxlen=1000 of request_history
MaxErrorHistory == 2    \* stands for maxlen=100 of error_history

HttpIds == 1..MaxHttp

InitMonitor ==
    [request_history |-> <<>>, error_history |-> <<>>,
     active_requests |-> 0, total_requests |-> 0, total_errors |-> 0,
     created |-> 0]

\* deque.append with maxlen: the oldest entry leaves a full deque.
AppendBounded(history, entry, maxlen) ==
    IF Len(history) < maxlen THEN Append(history, entry)
    ELSE Append(Tail(history), entry)

\* f"{request_type}_{int(time.time() * 1000)}"
RequestId(request_type, now) == <<request_type, now>>

\* A variant of start_request that does not count the request as active.
StartWithoutCounting(monitor, request_type, now) ==
    [monitor EXCEPT
        !.request_history =
            AppendBounded(@, [id |-> RequestId(request_type, now),
                              type |-> request_type,
                              status |-> "processing",
                              object |-> monitor.created + 1], MaxHistory),
        !.total_requests = @ + 1,
        !.created = @ + 1]

\* start_request at the time now; the field object tells the dict objects
\* of the history apart (created counts the dicts made so far).
start_request(monitor, request_type, now) ==
    [monitor EXCEPT
        !.request_history =
            AppendBounded(@, [id |-> RequestId(request_type, now),
                              type |-> request_type,
                              status |-> "processing",
                              object |-> monitor.created + 1], MaxHistory),
        !.active_requests = @ + 1,
        !.total_requests = @ + 1,
        !.created = @ + 1]

\* finish_request: the last entry of the history with the id is updated.
finish_request(monitor, request_id, success, error_message) ==
    LET found == {i \in 1..Len(monitor.request_history) :
                     monitor.request_history[i].id = request_id}
        last == CHOOSE i \in found : \A j \in found : j <= i
        updated ==
            IF found = {} THEN monitor.request_history
            ELSE [monitor.request_history EXCEPT
                     ![last].status = IF success THEN "completed" ELSE "failed"]
    IN [monitor EXCEPT
          !.request_history = updated,
          !.active_requests = Max(0, @ - 1),
          !.total_errors = IF success THEN @ ELSE @ + 1,
          !.error_history =
              IF success THEN @
              ELSE AppendBounded(@, [request_id |-> request_id,
                                     error |-> error_message,
                                     type |-> "request_error"],
                                 MaxErrorHistory)]

-----------------------------------------------------------------------------
(* Requests.                                                               *)

\* thunderbird is a client of the validator's table but not of the
\* optimizer's; lotus_notes is in neither.
ClientIds ==
    {"gmail", "outlook", "apple_mail", "yahoo", "thunderbird", "lotus_notes"}

SeqsUpTo(S, n) == UNION {[1..m -> S] : m \in 0..n}

ClientLists == SeqsUpTo(ClientIds, MaxClients)

\* The lists given to the validator draw on fewer identifiers.
ValidatorClientLists ==
    SeqsUpTo({"gmail", "outlook", "thunderbird", "lotus_notes"}, MaxClients)

\* Stylesheets of input documents; the padding leaves a stylesheet just under
\* the Yahoo limit, so that one appended block takes it over.
CssInputs ==
    { <<Tok("unsup", 1), Tok("rule", 1)>>,
      <<Tok("rule", 1), Tok("unsup_open", 1)>>,
      <<Tok("esc", 1)>>,
      <<Tok("pad", 29900), Tok("unsup", 1)>>,
      <<Tok("dark", 1)>> }

\* The closed style blocks of an input document: none, one, or two.
StyleInputs ==
    {<<>>} \cup {<<c>> : c \in CssInputs}
    \cup { <<<<Tok("rule", 1)>>, <<Tok("unsup", 1), Tok("rule", 1)>>>>,
           <<<<Tok("esc", 1)>>, <<Tok("rule", 1)>>>> }

\* Input documents of the optimizer: no <head>, a <head>, or a <head> and an
\* MSO conditional comment; the closed style blocks; and an optional unclosed
\* <style> tag before or after them.
HtmlInputs ==
    { Opt(hd # "none", <<Tok("head", 1)>>)
        \o Opt(hd = "head_mso", <<Tok("mso_cond", 1)>>)
        \o Opt(open = "before", <<Tok("style_open", 1)>>)
        \o [i \in 1..Len(blocks) |-> StyleTok(blocks[i])]
        \o Opt(open = "after", <<Tok("style_open", 1)>>)
        \o <<Tok("body", 1)>> :
      hd \in {"none", "head", "head_mso"},
      open \in {"none", "before", "after"},
      blocks \in StyleInputs }

\* Stylesheets of the documents given to the validator: none, the framework
\* of css_expert.py, and one over 50KB.
ValidatorCss ==
    { <<>>,
      <<Tok("framework_css", 1)>>,
      <<Tok("pad", 50001), Tok("pos", 1)>> }

\* The visible content of a document given to the validator.
PlainContent == <<Tok("h1", 1), Tok("a_text", 1)>>

RichContent ==
    { <<Tok("h2", 1), Tok("img", 7), Tok("a_generic", 1), Tok("url", 4)>>,
      <<Tok("img", 11), Tok("img_alt", 1), Tok("colors", 1), Tok("url", 7),
        Tok("text", 103000)>> }

\* A document: the skeleton (<!DOCTYPE html>, <html>, <head> with the charset
\* and viewport meta tags, <body>) or none, a stylesheet, an optional
\* max-width container, an optional table, the content.
Document(skeleton, css, maxw, table, content) ==
    Opt(skeleton, <<Tok("doctype", 1), Tok("html", 1), Tok("head", 1),
                    Tok("charset", 1), Tok("viewport", 1)>>)
    \o Opt(css # <<>>, <<StyleTok(css)>>)
    \o Opt(skeleton, <<Tok("body", 1)>>)
    \o Opt(maxw, <<Tok("maxw", 1)>>)
    \o Opt(table # "none", <<Tok(table, 1)>>)
    \o content

\* Documents given to the validator: every structure with the plain content,
\* and the richer contents in a complete and in a bare document.
ValidatorHtmlInputs ==
    { Document(skeleton, css, maxw, table, PlainContent) :
        skeleton \in BOOLEAN, maxw \in BOOLEAN,
        table \in {"none", "table", "table_role"}, css \in ValidatorCss }
    \cup
    { Document(complete, css, complete,
               IF complete THEN "table_role" ELSE "none", content) :
        complete \in BOOLEAN, css \in ValidatorCss, content \in RichContent }

\* Component scores given to the overall score directly.
ScoreInputs == {0, 40, 75, 100}

Prompts == SUBSET {"urgente", "empresa", "oferta"}
Industries == {"geral", "saude", "pets"}
Tones == {"professional", "luxury", "casual", "formal"}

Idle == [op |-> "none"]

Init ==
    /\ tone_styles = InitToneStyles
    /\ industry_templates = InitIndustryTemplates
    /\ email_client_compatibility = InitCompatibility
    /\ email_client_rules = InitClientRules
    /\ call = Idle
    /\ enh = [n |-> 0]
    /\ ai = [pc |-> "idle", first_fallback |-> <<>>]
    /\ db = InitProject
    /\ req = [r \in RequestIds |-> [pc |-> "idle"]]
    /\ mon = InitMonitor
    /\ http = [h \in HttpIds |-> [pc |-> "idle"]]
    /\ clock = 0

\* POST /optimize-css (app.py) calling CSSExpert.optimize_for_email_clients.
OptimizeCssOn(htmls, lists) ==
    /\ call.op = "none"
    /\ \E html \in htmls, target_clients \in lists,
          enable_dark_mode \in BOOLEAN, mobile_first \in BOOLEAN :
        /\ call' = [op |-> "optimize",
                    html |-> html,
                    target_clients |-> target_clients,
                    enable_dark_mode |-> enable_dark_mode,
                    mobile_first |-> mobile_first,
                    result |-> optimize_for_email_clients(
                                  html, target_clients,
                                  enable_dark_mode, mobile_first)]
        /\ UNCHANGED <<tables, enh, ai, services>>

OptimizeCss == OptimizeCssOn(HtmlInputs, ClientLists)

\* EmailValidator.validate_email_html with the arguments a caller chooses
\* (POST /validate of app.py passes the document alone).
ValidateEmailOn(htmls, lists) ==
    /\ call.op = "none"
    /\ \E html \in htmls, target_clients \in lists,
          check_accessibility \in BOOLEAN, check_performance \in BOOLEAN :
        /\ call' = [op |-> "validate",
                    html |-> html,
                    target_clients |-> target_clients,
                    check_accessibility |-> check_accessibility,
                    check_performance |-> check_performance,
                    result |-> validate_email_html(
                                  html, target_clients,
                                  check_accessibility, check_performance)]
        /\ UNCHANGED <<tables, enh, ai, services>>

ValidateEmail == ValidateEmailOn(ValidatorHtmlInputs, ValidatorClientLists)

\* EmailValidator._calculate_overall_score applied to given scores.
CalculateOverallScore ==
    /\ call.op = "none"
    /\ \E structural_score \in ScoreInputs, css_score \in ScoreInputs,
          accessibility_score \in ScoreInputs, performance_score \in ScoreInputs,
          client_scores \in SeqsUpTo({0, 80, 100}, MaxClients) :
        /\ call' = [op |-> "overall",
                    structural_score |-> structural_score,
                    css_score |-> css_score,
                    accessibility_score |-> accessibility_score,
                    performance_score |-> performance_score,
                    client_scores |-> client_scores,
                    result |-> _calculate_overall_score(
                                  structural_score, css_score,
                                  accessibility_score, performance_score,
                                  client_scores)]
        /\ UNCHANGED <<tables, enh, ai, services>>

\* The result is returned and the next call can start.  A call runs from its
\* start to its return without a suspension point.
Respond ==
    /\ call.op # "none"
    /\ call' = Idle
    /\ UNCHANGED <<tables, enh, ai, services>>

Next == OptimizeCss \/ ValidateEmail \/ CalculateOverallScore \/ Respond

Spec == Init /\ [][Next]_vars

\* EmailGenerator.generate_ultra_modern_email on the process's generator.
Generate ==
    /\ call.op = "none"
    /\ \E prompt \in Prompts, industry \in Industries, tone \in Tones :
        LET g == generate_ultra_modern_email(industry_templates, tone_styles,
                                             prompt, industry, tone)
        IN /\ call' = [op |-> "generate",
                       prompt |-> prompt,
                       industry |-> industry,
                       tone |-> tone,
                       result |-> g.result]
           /\ tone_styles' = g.tone_styles
           /\ UNCHANGED <<industry_templates, email_client_compatibility,
                          email_client_rules, enh, ai, services>>

\* The documents and lists of the optimize and validate calls that run
\* between generate calls.
GenHtmlInputs ==
    { <<Tok("doctype", 1), Tok("html", 1), Tok("head", 1),
        StyleTok(<<Tok("rule", 1)>>), Tok("body", 1), Tok("table_role", 1)>>,
      <<Tok("body", 1)>> }

GenClientLists == { <<"gmail", "outlook">>, <<"lotus_notes">> }

GenOptimizeCss == OptimizeCssOn(GenHtmlInputs, GenClientLists)

GenValidateEmail == ValidateEmailOn(GenHtmlInputs, GenClientLists)

NextGen == Generate \/ GenOptimizeCss \/ GenValidateEmail \/ Respond

SpecGen == Init /\ [][NextGen]_vars

\* The calls that show the range of the compatibility score: a document
\* whose processing succeeds and one whose processing fails, with longer lists
\* of clients, known or not, repeated or not.
MaxScoreClients == 4

ScoreHtmlInputs ==
    { <<Tok("head", 1), StyleTok(<<Tok("unsup", 1), Tok("rule", 1)>>),
        Tok("body", 1)>>,
      <<Tok("head", 1), StyleTok(<<Tok("esc", 1)>>), Tok("style_open", 1),
        Tok("body", 1)>> }

ScoreClientLists ==
    SeqsUpTo({"gmail", "outlook", "apple_mail", "lotus_notes"}, MaxScoreClients)

ScoreOptimizeCss == OptimizeCssOn(ScoreHtmlInputs, ScoreClientLists)

NextScore == ScoreOptimizeCss \/ Respond

SpecScore == Init /\ [][NextScore]_vars

\* Documents given to the structural analyzer: the empty string, fragments,
\* the documents of the optimizer (some with an unclosed <style>) and of the
\* validator, and documents in upper case.
AnalyzerHtmlInputs ==
    { <<>>, <<Tok("text", 40)>>, <<Tok("maxw", 1)>>,
      <<Tok("title", 1), Tok("div_class", 2), Tok("table", 3)>>,
      <<Tok("doctype", 1), Tok("html", 1), Tok("head", 1), Tok("title", 1),
        Tok("body", 1), Tok("div_class", 60), Tok("maxw", 60)>> }
    \cup HtmlInputs \cup ValidatorHtmlInputs
    \cup { Upper(d) : d \in ValidatorHtmlInputs }

\* HTMLOptimizer._analyze_html_structure applied to a document.
AnalyzeHtmlStructure ==
    /\ call.op = "none"
    /\ \E html \in AnalyzerHtmlInputs :
        call' = [op |-> "analyze",
                 html |-> html,
                 result |-> _analyze_html_structure(html)]
    /\ UNCHANGED <<tables, enh, ai, services>>

NextAnalyze == AnalyzeHtmlStructure \/ Respond

SpecAnalyze == Init /\ [][NextAnalyze]_vars

\* The documents given to validate_and_optimize_html: with or without
\* doctype, charset meta tag, table and style block, and up to MaxImages
\* images, each without alt, with an alt, with an empty alt or with a
\* data-alt attribute only.
MaxImages == 2

ImageKinds == {"img", "img_alt", "img_alt_empty", "img_data_alt"}

OptimizerHtmlInputs ==
    { Opt(doctype, <<Tok("doctype", 1)>>)
        \o <<Tok("html", 1), Tok("head", 1)>>
        \o Opt(charset, <<Tok("charset", 1)>>)
        \o Opt(style, <<StyleTok(<<Tok("rule", 1)>>)>>)
        \o <<Tok("body", 1)>>
        \o Opt(table, <<Tok("table", 1)>>)
        \o [i \in 1..Len(images) |-> Tok(images[i], 1)] :
      doctype \in BOOLEAN, charset \in BOOLEAN, style \in BOOLEAN,
      table \in BOOLEAN, images \in SeqsUpTo(ImageKinds, MaxImages) }

OptimizerClientLists ==
    { <<>>, <<"gmail", "outlook">>, <<"outlook">>, <<"yahoo", "gmail">> }

ValidateAndOptimizeHtmlOn(htmls, lists) ==
    /\ call.op = "none"
    /\ \E html \in htmls, target_clients \in lists,
          fix_issues \in BOOLEAN, optimize_for_size \in BOOLEAN :
        call' = [op |-> "validate_and_optimize",
                 html |-> html,
                 target_clients |-> target_clients,
                 fix_issues |-> fix_issues,
                 optimize_for_size |-> optimize_for_size,
                 result |-> validate_and_optimize_html(
                                html, target_clients, fix_issues,
                                optimize_for_size)]
    /\ UNCHANGED <<tables, enh, ai, services>>

ValidateAndOptimizeHtml ==
    ValidateAndOptimizeHtmlOn(OptimizerHtmlInputs, OptimizerClientLists)

NextOptimizeHtml == ValidateAndOptimizeHtml \/ Respond

SpecOptimizeHtml == Init /\ [][NextOptimizeHtml]_vars

\* The documents whose accessibility is scored: a complete document with a
\* header and up to MaxAltless images without alt, with or without one image
\* that has an alt and one that has a data-alt attribute only.
MaxAltless == 7

AccessibilityHtmlInputs ==
    { <<Tok("doctype", 1), Tok("html", 1), Tok("head", 1), Tok("charset", 1),
        Tok("viewport", 1), Tok("body", 1), Tok("h1", 1)>>
        \o Opt(altless > 0, <<Tok("img", altless)>>)
        \o Opt(with_alt, <<Tok("img_alt", 1)>>)
        \o Opt(data_alt, <<Tok("img_data_alt", 1)>>)
        \o <<Tok("a_text", 1)>> :
      altless \in 0..MaxAltless, with_alt \in BOOLEAN, data_alt \in BOOLEAN }

ValidateAccessibility ==
    ValidateEmailOn(AccessibilityHtmlInputs, {<<>>, <<"gmail">>})

OptimizeAccessibility ==
    ValidateAndOptimizeHtmlOn(AccessibilityHtmlInputs, {<<>>, <<"gmail", "outlook">>})

NextAccessibility == ValidateAccessibility \/ OptimizeAccessibility \/ Respond

SpecAccessibility == Init /\ [][NextAccessibility]_vars

\* The documents whose performance is scored: a text that brings the length
\* to a value at or next to a threshold of the size, with numbers of images,
\* of external URLs and of box-shadow declarations at, under and over the
\* thresholds of each.
PerformanceHtmlInputs ==
    { Opt(images > 0, <<Tok("img", images)>>)
        \o Opt(urls > 0, <<Tok("url", urls)>>)
        \o Opt(shadows > 0, <<Tok("shadow", shadows)>>)
        \o <<Tok("text", size - images * Size("img") - urls * Size("url")
                         - shadows * Size("shadow"))>> :
      size \in {49999, 50000, 50001, 102400, 102401, 110000},
      images \in {0, 5, 6, 10, 11},
      urls \in {0, 3, 4, 6, 7},
      shadows \in {0, 10, 11} }

ValidatePerformance == ValidateEmailOn(PerformanceHtmlInputs, {<<>>})

NextPerformance == ValidatePerformance \/ Respond

SpecPerformance == Init /\ [][NextPerformance]_vars

\* The subjects and documents given to check_spam_score: subjects with no,
\* one and several listed words (a listed word inside another counts for
\* both), in small letters and in capitals; documents put together from a
\* paragraph with one exclamation mark, a listed content word, five
\* exclamation marks, a shortened link, an address that ends like one, and a
\* second content word.
ScenarioSubject ==
    <<"G", "R", "Á", "T", "I", "S", " ", "A", "G", "O", "R", "A", "!", "!", "!", " ", "C", "L", "I", "Q", "U", "E", " ", "A", "Q", "U", "I">>
SpamSubjects ==
    { <<>>,
      <<"O", "f", "e", "r", "t", "a">>,
      <<"G", "r", "á", "t", "i", "s">>,
      <<"U", "R", "G", "E", "N", "T", "E">>,
      <<"B", "u", "y", " ", "n", "o", "w">>,
      <<"F", "R", "E", "E", "!">>,
      <<"C", "o", "m", "p", "r", "e", " ", "a", "g", "o", "r", "a">>,
      <<"G", "R", "Á", "T", "I", "S", " ", "A", "G", "O", "R", "A", "!", "!", "!", " ", "C", "L", "I", "Q", "U", "E", " ", "A", "Q", "U", "I">>,
      <<"A", "C", "T", " ", "N", "O", "W", ":", " ", "f", "r", "e", "e", ",", " ", "u", "r", "g", "e", "n", "t">>,
      <<"N", "o", "v", "i", "d", "a", "d", "e", "s", " ", "d", "a", " ", "l", "o", "j", "a">> }
HtmlPieces ==
    << <<"<", "p", ">", "O", "l", "á", "!", "<", "/", "p", ">">>,
       <<"C", "a", "s", "i", "n", "o">>,
       <<"!", "!", "!", "!", "!">>,
       <<"b", "i", "t", ".", "l", "y", "/", "x">>,
       <<"c", "h", "a", "t", ".", "c", "o", "m">>,
       <<"P", "r", "i", "n", "c", "e">> >>

RECURSIVE Join(_, _)
Join(pieces, chosen) ==
    IF pieces = <<>> THEN <<>>
    ELSE (IF Len(pieces) \in chosen THEN Head(pieces) ELSE <<>>)
         \o Join(Tail(pieces), chosen)

SpamHtmlInputs == { Join(HtmlPieces, chosen) : chosen \in SUBSET (1..Len(HtmlPieces)) }

\* EmailValidator.check_spam_score applied to a document and a subject.
CheckSpamScore ==
    /\ call.op = "none"
    /\ \E html \in SpamHtmlInputs, subject \in SpamSubjects :
        LET r == check_spam_score(html, subject)
        IN \E recommendations \in r.recommendations :
            call' = [op |-> "spam", html |-> html, subject |-> subject,
                     result |-> [r EXCEPT !.recommendations = recommendations]]
    /\ UNCHANGED <<tables, enh, ai, services>>

NextSpam == CheckSpamScore \/ Respond

SpecSpam == Init /\ [][NextSpam]_vars

\* The Outlook transform of the html applied to a document, then again to
\* what it returned, by CSSExpert._optimize_html_for_outlook ("css_expert")
\* or by the outlook branch of HTMLOptimizer._optimize_for_client
\* ("html_optimizer").  The documents: no <head>, one, two, or one written
\* <HEAD>; no text "mso", an MSO conditional comment, or an inline style with
\* an mso- property; with or without a table.
MaxOutlookApply == 3

OutlookHtmlInputs ==
    { <<Tok("html", 1)>>
        \o (CASE hd = "none" -> <<>>
              [] hd = "head" -> <<Tok("head", 1)>>
              [] hd = "two" -> <<Tok("head", 1), Tok("title", 1), Tok("head", 1)>>
              [] hd = "upper" -> <<[Tok("head", 1) EXCEPT !.cs = "u"]>>)
        \o <<Tok("body", 1)>>
        \o (CASE mso = "none" -> <<>>
              [] mso = "comment" -> <<Tok("mso_cond", 1)>>
              [] mso = "style" -> <<Tok("mso_style", 1)>>)
        \o Opt(table, <<Tok("table", 1)>>)
        \o <<Tok("h1", 1)>> :
      hd \in {"none", "head", "two", "upper"},
      mso \in {"none", "comment", "style"},
      table \in BOOLEAN }

OutlookHtmlBy(via, html) ==
    IF via = "css_expert" THEN _optimize_html_for_outlook(html)
    ELSE _optimize_for_client(html, "outlook").html

ApplyOutlookHtml ==
    /\ call.op = "none"
    /\ \E html \in OutlookHtmlInputs, via \in {"css_expert", "html_optimizer"} :
        call' = [op |-> "outlook_html", via |-> via, n |-> 1,
                 html |-> html, html_in |-> html,
                 html_out |-> OutlookHtmlBy(via, html)]
    /\ UNCHANGED <<tables, enh, ai, services>>

ApplyOutlookHtmlAgain ==
    /\ call.op = "outlook_html"
    /\ call.n < MaxOutlookApply
    /\ call' = [call EXCEPT !.n = @ + 1,
                            !.html_in = call.html_out,
                            !.html_out = OutlookHtmlBy(call.via, call.html_out)]
    /\ UNCHANGED <<tables, enh, ai, services>>

NextOutlookHtml == ApplyOutlookHtml \/ ApplyOutlookHtmlAgain \/ Respond

SpecOutlookHtml == Init /\ [][NextOutlookHtml]_vars

\* The replies to the request of modify_email_intelligently: every model
\* failed, a JSON object with and without html, a JSON list, and text that
\* is not JSON.
ModifyReplies ==
    { [kind |-> "raised", content |-> [form |-> "text", text |-> <<>>]],
      [kind |-> "reply",
       content |-> [form |-> "json",
                    value |-> [type |-> "dict",
                               keys |-> {"html", "subject", "text"},
                               html |-> <<Tok("html", 1), Tok("head", 1),
                                          Tok("body", 1), Tok("h2", 1)>>,
                               subject |-> "Novo assunto",
                               text |-> "Novo texto"]]],
      [kind |-> "reply",
       content |-> [form |-> "json",
                    value |-> [type |-> "dict", keys |-> {"subject"},
                               html |-> <<>>, subject |-> "Novo assunto",
                               text |-> "None"]]],
      [kind |-> "reply",
       content |-> [form |-> "json", value |-> [type |-> "list"]]],
      [kind |-> "reply",
       content |-> [form |-> "text", text |-> <<Tok("text", 12)>>]] }

\* modify_email up to its first await that leaves the process: the project
\* is read from the store (404 without a project, 400 without html).
ModifyRead(r) ==
    /\ req[r].pc = "idle"
    /\ req' = [req EXCEPT ![r] =
                  IF db.content.html = <<>>
                  THEN [pc |-> "done", op |-> "modify", status |-> 400,
                        failed |-> FALSE, update_success |-> FALSE]
                  ELSE [pc |-> "modifying", op |-> "modify", project |-> db]]
    /\ UNCHANGED <<tables, call, enh, ai, db, mon, http, clock>>

\* The request to the model returns or fails; the html of the result is
\* optimized again and update_one is sent with the values computed from the
\* project read at the start.
ModifyAiReturns(r) ==
    /\ req[r].pc = "modifying"
    /\ \E reply \in ModifyReplies :
        LET project == req[r].project
            result == modify_email_intelligently(project.content.html, reply)
            optimized_result ==
                optimize_for_email_clients(
                    result.html, <<"gmail", "outlook", "apple_mail">>,
                    TRUE, TRUE)
        IN req' = [req EXCEPT ![r] =
                      [pc |-> "updating", op |-> "modify",
                       project |-> project,
                       failed |-> "subject" \notin result.keys,
                       update |-> ModifyUpdateArguments(
                                      project, result, optimized_result)]]
    /\ UNCHANGED <<tables, call, enh, ai, db, mon, http, clock>>

\* The store applies the update; modified_count is 1 and modify_email
\* answers with project_updated true.
ModifyUpdate(r) ==
    /\ req[r].pc = "updating"
    /\ db' = update_project_content(db, req[r].update.new_content,
                                    req[r].update.modification_details)
    /\ req' = [req EXCEPT ![r] =
                  [pc |-> "done", op |-> "modify", status |-> 200,
                   failed |-> req[r].failed, update_success |-> TRUE]]
    /\ UNCHANGED <<tables, call, enh, ai, mon, http, clock>>

\* process_chat_message: it reads the project and the messages and calls
\* ai_coordinator.smartChatWithAI, which AICoordinator does not define: the
\* AttributeError is answered with status 500 before any update.
ProcessChatMessage(r) ==
    /\ req[r].pc = "idle"
    /\ req' = [req EXCEPT ![r] =
                  [pc |-> "done", op |-> "chat", status |-> 500,
                   failed |-> TRUE, update_success |-> FALSE]]
    /\ UNCHANGED <<tables, call, enh, ai, db, mon, http, clock>>

NextModify ==
    \E r \in RequestIds :
        ModifyRead(r) \/ ModifyAiReturns(r) \/ ModifyUpdate(r)
        \/ ProcessChatMessage(r)

SpecModify == Init /\ [][NextModify]_vars

\* The middleware log_requests around a request of one of two kinds: the
\* request is registered with the monitor before call_next is awaited.  The
\* requests are numbered in the order of their arrival.
RequestTypes == {"GET /health", "POST /modify"}

StartRequest(h) ==
    /\ http[h].pc = "idle"
    /\ \A g \in HttpIds : g < h => http[g].pc # "idle"
    /\ \E request_type \in RequestTypes :
        /\ mon' = start_request(mon, request_type, clock)
        /\ http' = [http EXCEPT ![h] =
                       [pc |-> "processing",
                        request_id |-> RequestId(request_type, clock),
                        object |-> mon.created + 1]]
    /\ UNCHANGED <<tables, call, enh, ai, db, req, clock>>

\* call_next returns a response: finish_request with success for a status
\* under 400, then the headers and the return.
HandlerReturns(h) ==
    /\ http[h].pc = "processing"
    /\ \E status_code \in {200, 404} :
        /\ mon' = finish_request(mon, http[h].request_id, status_code < 400,
                                 "None")
        /\ http' = [http EXCEPT ![h] =
                       [pc |-> "done", request_id |-> http[h].request_id,
                        object |-> http[h].object,
                        status_code |-> status_code]]
    /\ UNCHANGED <<tables, call, enh, ai, db, req, clock>>

\* call_next raises: the except branch calls finish_request without success
\* and raises again.
HandlerRaises(h) ==
    /\ http[h].pc = "processing"
    /\ mon' = finish_request(mon, http[h].request_id, FALSE, "error")
    /\ http' = [http EXCEPT ![h] =
                   [pc |-> "done", request_id |-> http[h].request_id,
                    object |-> http[h].object, status_code |-> 500]]
    /\ UNCHANGED <<tables, call, enh, ai, db, req, clock>>

\* A millisecond passes.
Tick ==
    /\ clock < MaxClock
    /\ clock' = clock + 1
    /\ UNCHANGED <<tables, call, enh, ai, db, req, mon, http>>

NextMonitor ==
    \/ \E h \in HttpIds : StartRequest(h) \/ HandlerReturns(h) \/ HandlerRaises(h)
    \/ Tick

SpecMonitor == Init /\ [][NextMonitor]_vars

\* The texts and configs given to the template engine: a content with a run
\* of whitespace and one with a semicolon before a brace; industries with
\* each template text, one without style and one that cannot be looked up;
\* an urgency that cannot be looked up; a colour that is not a string.
TemplateContents ==
    { <<"Olá">>, <<"Olá", " ", " ", "mundo">>, <<"a", ";", " ", "}">> }

TemplateSubjects == { <<"Oferta">>, <<"Oferta", " ", "final">> }

TemplateConfigs ==
    [industry : {Absent, Str("saude"), Str("tecnologia"), Str("educacao"),
                 Str("geral"), Str("pets"), [type |-> "list"]},
     urgency : {Absent, Str("high"), Str("low"), Str("agora"), [type |-> "list"]},
     primary_color : {Absent, Str("#ff0000"), [type |-> "number"]},
     cta_text : {Absent, Str("Comprar")}]

ApplyUltraModernTemplate ==
    /\ call.op = "none"
    /\ \E content \in TemplateContents, subject \in TemplateSubjects,
          config \in TemplateConfigs :
        call' = [op |-> "template",
                 content |-> content, subject |-> subject, config |-> config,
                 result |-> apply_ultra_modern_template(content, subject, config)]
    /\ UNCHANGED <<tables, enh, ai, services>>

NextTemplate == ApplyUltraModernTemplate \/ Respond

SpecTemplate == Init /\ [][NextTemplate]_vars

\* The requests to the generation: prompts that share their first 100
\* characters and one that does not, an industry with a colour scheme and
\* one without, two tones.
AiPrompts ==
    { [head |-> "oferta", rest |-> ""], [head |-> "oferta", rest |-> " de verão"],
      [head |-> "convite", rest |-> ""] }

AiIndustries == {"saude", "pets"}
AiTones == {"professional", "casual"}

\* The contents a model can reply with.
JsonValues ==
    { [type |-> "list"] }
    \cup { [type |-> "dict", keys |-> {"subject", "html"}, subject |-> "S",
            html |-> h] :
           h \in { [kind |-> "llm", doc |-> FALSE],
                   [kind |-> "llm", doc |-> TRUE], [kind |-> "null"] } }
    \cup { [type |-> "dict", keys |-> {"error"}] }

ReplyContents ==
    { [form |-> "null"],
      [form |-> "text", lt |-> FALSE, doc |-> FALSE],
      [form |-> "text", lt |-> TRUE, doc |-> FALSE] }
    \cup { [form |-> "json", value |-> v] : v \in JsonValues }

\* The replies to one request: an exception of the client (a timeout, a
\* refused connection), a status other than 200, a body without "choices",
\* and the bodies of the expected shape.
Replies ==
    { [kind |-> "exception"],
      [kind |-> "response", status_code |-> 500],
      [kind |-> "response", status_code |-> 200, body |-> [shape |-> "no_choices"]] }
    \cup { [kind |-> "response", status_code |-> 200,
            body |-> [shape |-> "ok", content |-> c, usage |-> "dict"]] :
           c \in ReplyContents }
    \cup { [kind |-> "response", status_code |-> 200,
            body |-> [shape |-> "ok",
                      content |-> [form |-> "text", lt |-> FALSE, doc |-> FALSE],
                      usage |-> "null"]] }

\* POST /generate (app.py) calling AICoordinator.generate_ultra_modern_email,
\* up to its first request to a model.
StartGenerate ==
    /\ ai.pc = "idle"
    /\ \E prompt \in AiPrompts, industry \in AiIndustries, tone \in AiTones :
        ai' = [pc |-> "calling",
               prompt |-> prompt, industry |-> industry, tone |-> tone,
               attempts |-> <<>>,
               first_fallback |-> ai.first_fallback]
    /\ UNCHANGED <<tables, call, enh, services>>

\* One turn of the loop of _call_ai_with_fallbacks: the request to the next
\* model and its reply.  A reply that does not fail, or the failure of the
\* last model, ends the call, and generate_ultra_modern_email runs to its
\* return.  called records what _call_ai_with_fallbacks did.
CallModel ==
    /\ ai.pc = "calling"
    /\ \E reply \in Replies :
        LET model == models_to_try[Len(ai.attempts) + 1]
            attempts == Append(ai.attempts, [model |-> model, reply |-> reply])
            called == IF AttemptFails(reply)
                      THEN [raised |-> TRUE]
                      ELSE [raised |-> FALSE,
                            response |-> AiResponse(reply, model)]
        IN IF AttemptFails(reply) /\ Len(attempts) < Len(models_to_try)
           THEN ai' = [ai EXCEPT !.attempts = attempts]
           ELSE ai' = [pc |-> "done",
                       prompt |-> ai.prompt, industry |-> ai.industry,
                       tone |-> ai.tone,
                       attempts |-> attempts,
                       called |-> called,
                       result |-> generate_ultra_modern_email_after_call(
                                      called, ai.prompt, ai.industry, ai.tone,
                                      "medium"),
                       first_fallback |-> ai.first_fallback]
    /\ UNCHANGED <<tables, call, enh, services>>

\* The email is returned.  first_fallback keeps the first fallback email
\* returned, with the request it answered.
ReturnEmail ==
    /\ ai.pc = "done"
    /\ ai' = [pc |-> "idle",
              first_fallback |->
                 IF ai.first_fallback = <<>>
                    /\ ai.result.model = "fallback-generator"
                 THEN <<[prompt |-> ai.prompt, industry |-> ai.industry,
                         tone |-> ai.tone, html |-> ai.result.html]>>
                 ELSE ai.first_fallback]
    /\ UNCHANGED <<tables, call, enh, services>>

NextAI == StartGenerate \/ CallModel \/ ReturnEmail

SpecAI == Init /\ [][NextAI]_vars

\* Every request of _call_ai_with_fallbacks is awaited with timeout=45.0, so
\* a pending attempt always ends, with a reply or with an exception.
SpecAILive == SpecAI /\ WF_vars(CallModel)

\* Stylesheets given to the enhancement step: up to two pieces, each a plain
\* rule, a dark-mode or mobile media query of the author, or the dark-mode
\* block of the step itself.
EnhCssInputs ==
    SeqsUpTo({Tok("rule", 1), Tok("dark", 1), Tok("mobile", 1),
              Tok("dark_css", 1)}, 2)

\* CSSExpert._apply_modern_enhancements applied to a stylesheet, then again
\* to what it returned; hist records the applications.
ApplyModernEnhancements ==
    /\ enh.n < MaxApply
    /\ \E css \in (IF enh.n = 0 THEN EnhCssInputs ELSE {enh.css}),
          enable_dark_mode \in BOOLEAN, mobile_first \in BOOLEAN :
        LET r == _apply_modern_enhancements(css, <<>>, enable_dark_mode,
                                            mobile_first)
        IN enh' = [n |-> enh.n + 1,
                   css |-> r.css,
                   hist |-> (IF enh.n = 0 THEN <<>> ELSE enh.hist)
                            \o <<[enable_dark_mode |-> enable_dark_mode,
                                  mobile_first |-> mobile_first,
                                  css_in |-> css,
                                  css_out |-> r.css,
                                  enhancements |-> r.enhancements]>>]
    /\ UNCHANGED <<tables, call, ai, services>>

NextEnh == ApplyModernEnhancements

SpecEnh == Init /\ [][NextEnh]_vars

-----------------------------------------------------------------------------
(* Properties of the optimizer.                                            *)

Optimized == call.op = "optimize"
Validated == call.op = "validate"

\* Whether the identifier c occurs in the list.
InList(c, list) == \E i \in 1..Len(list) : list[i] = c

\* The labels the client transforms and the enhancement step can add.
StepLabels ==
    {"Outlook VML compatibility", "Table-based layout", "Gmail CSS reset",
     "Inline styles prioritized", "Full CSS3 support enabled",
     "Yahoo CSS size optimized", "Dark mode support", "Mobile-first responsive"}

\* The label sequences the enhancement step can report.
EnhancementLabels ==
    { <<>>, <<"Dark mode support">>, <<"Mobile-first responsive">>,
      <<"Dark mode support", "Mobile-first responsive">> }

\* C1: optimize_for_email_clients never raises; when a step inside it fails,
\* the result has compatibility_score 0.8 (80 hundredths) and its
\* optimizations list is exactly ["Fallback optimization applied"].
C1_NeverRaisesFallbackShape ==
    Optimized =>
        /\ ~call.result.raised
        /\ call.result.fallback =>
              /\ call.result.compatibility_score = 80
              /\ call.result.optimizations = <<"Fallback optimization applied">>

\* A call whose last step failed after a client transform had succeeded.
C1_Witness ==
    /\ Optimized
    /\ call.result.fallback
    /\ Len(call.result.steps) > 0

\* C2: when a step fails after client transforms succeeded, the result
\* carries none of the partial work: html is the caller's html and no label
\* of a client transform or of the enhancement step is in optimizations.
C2_FallbackAllOrNothing ==
    (Optimized /\ call.result.fallback /\ Len(call.result.steps) > 0) =>
        /\ call.result.html = call.html
        /\ \A i \in 1..Len(call.result.optimizations) :
              call.result.optimizations[i] \notin StepLabels

\* A failed call in which a client transform had already changed the html
\* and the css.
C2_Witness ==
    /\ Optimized
    /\ call.result.fallback
    /\ \E i \in 1..Len(call.result.steps) :
          /\ call.result.steps[i].html_out # call.result.steps[i].html_in
          /\ call.result.steps[i].css_out # call.result.steps[i].css_in

\* C3: the clients the optimizer knows are processed in the caller's order;
\* the first transform is given the css and html extracted from the input,
\* every later one what the previous transform returned; the optimizations
\* list is the per-client labels in that order, then the enhancement labels.
C3_CallerOrderCumulative ==
    Optimized =>
        LET steps == call.result.steps
            known == SelectSeq(call.target_clients,
                        LAMBDA c : c \in DOMAIN email_client_compatibility)
            labels == Flatten([i \in 1..Len(steps) |->
                        _optimize_for_specific_client(
                            steps[i].css_in, steps[i].html_in,
                            known[i]).optimizations])
        IN /\ [i \in 1..Len(steps) |-> steps[i].client] = known
           /\ Len(steps) > 0 =>
                 /\ steps[1].css_in = _extract_css_from_html(call.html)
                 /\ steps[1].html_in = _extract_html_without_css(call.html)
           /\ \A i \in 1..(Len(steps) - 1) :
                 /\ steps[i + 1].css_in = steps[i].css_out
                 /\ steps[i + 1].html_in = steps[i].html_out
           /\ ~call.result.fallback =>
                 \E e \in EnhancementLabels :
                    call.result.optimizations = labels \o e

\* A successful call with two transforms, the second given css and html that
\* both differ from what the first was given.
C3_Witness ==
    /\ Optimized
    /\ ~call.result.fallback
    /\ Len(call.result.steps) = 2
    /\ call.result.steps[2].css_in # call.result.steps[1].css_in
    /\ call.result.steps[2].html_in # call.result.steps[1].html_in
    /\ call.result.steps[1].client # call.result.steps[2].client

-----------------------------------------------------------------------------
(* Properties of the validator.                                            *)

\* C6: validate_email_html sets valid to false exactly when the structural
\* validator reported an issue, and the result's issues are those issues;
\* no score takes part in it.
C6_ValidIffNoStructuralIssue ==
    Validated =>
        /\ call.result.valid = (call.result.details.structure.issues = <<>>)
        /\ call.result.issues = call.result.details.structure.issues

\* A validation with structural issues, invalid, whose overall score is high.
C6_Witness ==
    /\ Validated
    /\ ~call.result.valid
    /\ call.result.issues # <<>>
    /\ call.result.overall_score >= 80

\* The document has <!DOCTYPE html>, <html>, <head> with charset and viewport
\* meta tags, <body> and a <table>.
CompleteDocument(html) ==
    /\ \A w \in {"<!DOCTYPE", "<html", "<head", "<body", "<table",
                 "charset", "viewport"} : Contains(html, w)

\* C7: a complete document gets the structural score 100 with no issues and
\* no warnings.
C7_CompleteDocumentScores100 ==
    (Validated /\ CompleteDocument(call.html)) =>
        /\ call.result.details.structure.score = 100
        /\ call.result.details.structure.issues = <<>>
        /\ call.result.details.structure.warnings = <<>>

\* C8: every score the validator returns lies in 0..100.
C8_ScoresInRange ==
    /\ Validated =>
          /\ call.result.details.structure.score \in 0..100
          /\ call.result.details.css.score \in 0..100
          /\ call.result.accessibility_score \in 0..100
          /\ call.result.performance_score \in 0..100
          /\ call.result.overall_score \in 0..100
          /\ \A c \in DOMAIN call.result.client_compatibility :
                call.result.client_compatibility[c].score \in 0..100
    /\ call.op = "overall" => call.result \in 0..100

\* A validation of a document without any of the checked elements: the
\* deductions exceed 100 and the structural score is 0.
C8_Witness ==
    /\ Validated
    /\ call.result.details.structure.score = 0
    /\ Len(call.result.details.structure.issues) = 4
    /\ Len(call.result.details.structure.warnings) = 4

\* overall is the weighted sum 0.25 s + 0.20 c + 0.20 a + 0.15 p + 0.20 m
\* truncated, m being the mean of the client scores or 80 for none; stated
\* in integers, with n the number of client scores (1 for none) and sum
\* their sum (80 for none).
IsWeightedOverall(overall, s, c, a, p, n, sum) ==
    LET total == n * (25 * s + 20 * c + 20 * a + 15 * p) + 20 * sum
    IN /\ 100 * n * overall <= total
       /\ total < 100 * n * (overall + 1)

\* C9: overall_score is the fixed-weight combination of the four component
\* scores and the mean of the per-client scores (80 for no clients),
\* truncated to an integer; five scores of 100 give 100.
C9_OverallIsWeightedSum ==
    /\ Validated =>
          LET r == call.result
              cs == DOMAIN r.client_compatibility
              n == Cardinality(cs)
              scores == [i \in 1..Len(Keys(call.target_clients)) |->
                            r.client_compatibility[Keys(call.target_clients)[i]].score]
          IN IsWeightedOverall(r.overall_score,
                               r.details.structure.score, r.details.css.score,
                               r.accessibility_score, r.performance_score,
                               IF n = 0 THEN 1 ELSE n,
                               IF n = 0 THEN 80 ELSE SumSeq(scores))
    /\ call.op = "overall" =>
          LET n == Len(call.client_scores)
          IN /\ IsWeightedOverall(call.result,
                                  call.structural_score, call.css_score,
                                  call.accessibility_score, call.performance_score,
                                  IF n = 0 THEN 1 ELSE n,
                                  IF n = 0 THEN 80 ELSE SumSeq(call.client_scores))
             /\ (/\ call.structural_score = 100 /\ call.css_score = 100
                 /\ call.accessibility_score = 100 /\ call.performance_score = 100
                 /\ n > 0
                 /\ \A i \in 1..n : call.client_scores[i] = 100)
                => call.result = 100

\* The overall score of four perfect component scores and no clients: 96.
C9_Witness ==
    /\ call.op = "overall"
    /\ call.structural_score = 100 /\ call.css_score = 100
    /\ call.accessibility_score = 100 /\ call.performance_score = 100
    /\ call.client_scores = <<>>
    /\ call.result = 96

-----------------------------------------------------------------------------
(* Properties of the shared configuration.                                 *)

\* C5: no request changes the configuration: after any calls the client
\* tables, the industry templates and the tone styles are as constructed,
\* and the result of a generate call is the one the same arguments give on
\* the configuration as constructed.
C5_ConfigurationNeverMutated ==
    /\ tone_styles = InitToneStyles
    /\ industry_templates = InitIndustryTemplates
    /\ email_client_compatibility = InitCompatibility
    /\ email_client_rules = InitClientRules
    /\ call.op = "generate" =>
          call.result = generate_ultra_modern_email(
                            InitIndustryTemplates, InitToneStyles,
                            call.prompt, call.industry, call.tone).result

-----------------------------------------------------------------------------
(* Properties of the enhancement step.                                     *)

DarkMarker == "@media (prefers-color-scheme: dark)"
MobileMarker == "@media only screen and (max-width: 600px)"

\* Applications i and i+1 of the history both had both flags on.
TwiceWithBothFlags(i) ==
    /\ enh.n > 0
    /\ i \in 1..(Len(enh.hist) - 1)
    /\ enh.hist[i].enable_dark_mode /\ enh.hist[i].mobile_first
    /\ enh.hist[i + 1].enable_dark_mode /\ enh.hist[i + 1].mobile_first

\* C10 as stated: after two applications in a row with both flags on, the
\* css has exactly one occurrence of each marker; the second application
\* changed nothing and reported no enhancement.
C10_ExactlyOneMarkerEach ==
    \A i \in 1..MaxApply :
        TwiceWithBothFlags(i) =>
            /\ Count(enh.hist[i + 1].css_out, DarkMarker) = 1
            /\ Count(enh.hist[i + 1].css_out, MobileMarker) = 1
            /\ enh.hist[i + 1].css_out = enh.hist[i].css_out
            /\ enh.hist[i + 1].enhancements = <<>>

\* C10 as the code has it: after two applications in a row with both flags
\* on, each marker occurs once if the css given to the first had it at most
\* once, and as often as in that css otherwise; the second application
\* changed nothing and reported no enhancement.
C10_MarkerOnceUnlessRepeatedInInput ==
    \A i \in 1..MaxApply :
        TwiceWithBothFlags(i) =>
            /\ Count(enh.hist[i + 1].css_out, DarkMarker)
                  = Max(1, Count(enh.hist[i].css_in, DarkMarker))
            /\ Count(enh.hist[i + 1].css_out, MobileMarker)
                  = Max(1, Count(enh.hist[i].css_in, MobileMarker))
            /\ enh.hist[i + 1].css_out = enh.hist[i].css_out
            /\ enh.hist[i + 1].enhancements = <<>>

\* Two applications with both flags on, the first of which added both
\* blocks to a stylesheet that had neither marker.
C10_Witness ==
    /\ TwiceWithBothFlags(1)
    /\ enh.hist[1].enhancements = <<"Dark mode support", "Mobile-first responsive">>
    /\ enh.hist[1].css_in # <<>>
    /\ Count(enh.css, DarkMarker) = 1
    /\ Count(enh.css, MobileMarker) = 1

\* The declarations of the six Outlook-unsupported properties in a stylesheet.
UnsupportedDeclarations(css) ==
    Count(css, "border-radius") + Count(css, "box-shadow")
    + Count(css, "text-shadow") + Count(css, "transform")
    + Count(css, "transition") + Count(css, "animation")

\* C11: for every subset and order of target clients, the stylesheet the
\* optimizer returns, passed once more through the Outlook transform,
\* contains no border-radius, box-shadow, text-shadow, transform, transition
\* or animation declaration.
C11_NoUnsupportedAfterOutlook ==
    Optimized =>
        UnsupportedDeclarations(_optimize_css_for_outlook(call.result.css)) = 0

\* The call for outlook then gmail, and the result of the same call with the
\* two clients in the other order.
OutlookThenGmail ==
    /\ Optimized
    /\ call.target_clients = <<"outlook", "gmail">>
    /\ UnsupportedDeclarations(call.html) > 0
    /\ ~Contains(call.html, "!important")

GmailThenOutlook ==
    optimize_for_email_clients(call.html, <<"gmail", "outlook">>,
                               call.enable_dark_mode, call.mobile_first)

\* Whether the stylesheet has an unsupported declaration that no semicolon
\* follows.
Unterminated(css) ==
    \E i \in 1..Len(css) :
        /\ css[i].k = "unsup_open"
        /\ \A j \in (i + 1)..Len(css) : ~HasSemicolon(css[j])

C13_CompatibilityScoreInUnitInterval ==
    Optimized =>
        /\ call.result.compatibility_score >= 0
        /\ call.result.compatibility_excess >= 0
        /\ call.result.compatibility_score <= 100
        /\ call.result.compatibility_score = 100 =>
              call.result.compatibility_excess = 0

\* A normal-path call whose list holds the three rewarded clients and an
\* unknown one: the sum of the additions is above 1 and
\* the score returned is 1.
C13_Witness ==
    /\ Optimized
    /\ ~call.result.fallback
    /\ call.target_clients = <<"outlook", "gmail", "apple_mail", "lotus_notes">>
    /\ base_score(call.target_clients) = [h |-> 100, e |-> 2]
    /\ call.result.compatibility_score = 100
    /\ call.result.compatibility_excess = 0

\* A fallback-path call with a list of four clients scores 0.8.
C13_FallbackWitness ==
    /\ Optimized
    /\ call.result.fallback
    /\ Len(call.target_clients) = MaxScoreClients
    /\ call.result.compatibility_score = 80

-----------------------------------------------------------------------------
(* Properties of the HTML optimizer.                                       *)

Analyzed == call.op = "analyze"

\* The count fields and the boolean flags of a descriptor.
CountFields(a) ==
    <<a.element_count, a.inline_styles_count, a.css_classes_count,
      a.table_count, a.image_count, a.link_count>>

BooleanFlags(a) ==
    <<a.has_doctype, a.has_html_tag, a.has_head, a.has_body,
      a.has_meta_charset, a.has_meta_viewport, a.has_title, a.uses_tables,
      a.uses_css, a.has_images, a.has_links>>

\* C14: _analyze_html_structure never raises; every count field it returns
\* is >= 0; for the empty string every boolean flag is false and every count
\* is 0.
C14_AnalysisTotalAndNonNegative ==
    Analyzed =>
        LET counts == CountFields(call.result)
            flags == BooleanFlags(call.result)
        IN /\ ~call.result.raised
           /\ \A i \in 1..Len(counts) : counts[i] >= 0
           /\ call.html = <<>> =>
                 /\ \A i \in 1..Len(flags) : ~flags[i]
                 /\ \A i \in 1..Len(counts) : counts[i] = 0

\* The empty string was analysed.
C14_Witness ==
    /\ Analyzed
    /\ call.html = <<>>
    /\ call.result.element_count = 0
    /\ ~call.result.has_doctype

\* A document in upper case was analysed: its tags are counted.
C14_UpperCaseWitness ==
    /\ Analyzed
    /\ call.html # <<>>
    /\ \A i \in 1..Len(call.html) : call.html[i].cs = "u"
    /\ call.result.has_doctype
    /\ call.result.image_count > 0
    /\ call.result.inline_styles_count = 0
    /\ call.result.complexity_score = 1

-----------------------------------------------------------------------------
(* Properties of the AI coordinator.                                       *)

\* Every model of the list failed.
AllModelsFailed == ai.called.raised

\* A model replied, and its reply cannot be processed: the content is null,
\* the JSON is not an object, its html is null, or the usage is null.
UnusableReply ==
    /\ ~ai.called.raised
    /\ LET content == ai.called.response.content
       IN \/ content.form = "null"
          \/ /\ content.form = "json"
             /\ \/ content.value.type # "dict"
                \/ /\ "html" \in content.value.keys
                   /\ content.value.html.kind = "null"
          \/ ai.called.response.usage = "null"

C15_UnusableWitness ==
    /\ ai.pc = "done"
    /\ Len(ai.attempts) = 2
    /\ UnusableReply
    /\ ai.called.response.content.form = "json"
    /\ ai.result.model = "fallback-generator"

\* The model of the i-th attempt in the priority order: the primary model,
\* then the fallbacks in the order of their list.
PriorityModel(i) == IF i = 1 THEN models.primary ELSE models.fallbacks[i - 1]

\* What holds of the attempts of _call_ai_with_fallbacks at every moment.
AttemptsInPriorityOrder ==
    ai.pc \in {"calling", "done"} =>
        /\ Len(ai.attempts) <= 1 + Len(models.fallbacks)
        /\ \A i \in 1..Len(ai.attempts) :
              ai.attempts[i].model = PriorityModel(i)
        /\ \A i, j \in 1..Len(ai.attempts) :
              i # j => ai.attempts[i].model # ai.attempts[j].model
        /\ \A i \in 1..(Len(ai.attempts) - 1) :
              AttemptFails(ai.attempts[i].reply)
        /\ ai.pc = "calling" =>
              /\ Len(ai.attempts) < 1 + Len(models.fallbacks)
              /\ \A i \in 1..Len(ai.attempts) :
                    AttemptFails(ai.attempts[i].reply)
        /\ ai.pc = "done" =>
              LET last == ai.attempts[Len(ai.attempts)]
              IN /\ Len(ai.attempts) >= 1
                 /\ ai.called.raised <=>
                       /\ Len(ai.attempts) = 1 + Len(models.fallbacks)
                       /\ AttemptFails(last.reply)
                 /\ ~ai.called.raised =>
                       /\ ~AttemptFails(last.reply)
                       /\ ai.called.response.model = last.model
                       /\ ai.called.response.content = last.reply.body.content

\* C17: _call_ai_with_fallbacks calls the models in priority order, each at
\* most once and only after every model before it failed, returns the first
\* reply that did not fail with the model that gave it, raises only when all
\* four models failed, and always ends after at most four attempts.
C17_FallbackOrderAndTermination ==
    /\ []AttemptsInPriorityOrder
    /\ (ai.pc = "calling") ~> (ai.pc = "done")

\* The last model of the list replied after the three before it failed.
C17_Witness ==
    /\ ai.pc = "done"
    /\ Len(ai.attempts) = 4
    /\ ~ai.called.raised
    /\ ai.called.response.model = "openai/gpt-4-turbo-preview"
    /\ ai.attempts[1].reply.kind = "exception"
    /\ ai.attempts[2].reply.kind = "response"
    /\ ai.attempts[2].reply.status_code = 500

-----------------------------------------------------------------------------
(* Properties of the template engine.                                      *)

Templated == call.op = "template"

\* The industry of the request has no entry in the style table.
IndustryWithoutStyle ==
    /\ call.config.industry.type = "str"
    /\ call.config.industry.v \notin DOMAIN industry_styles

\* The document is the fallback shell around the subject and content given.
IsFallbackShell(html) ==
    /\ html.kind = "fallback_shell"
    /\ html.subject = call.subject
    /\ html.content = call.content

\* The document is the template of the 'geral' style.
RenderedWithGeralStyle(html) ==
    /\ html.kind = "rendered"
    /\ html.template = base_templates[industry_styles["geral"].template]
    /\ html.primary_color \in {industry_styles["geral"].primary_color,
                               call.config.primary_color}

C16_ShellWitness ==
    /\ Templated
    /\ call.result.raised_in = {"render"}
    /\ call.config.primary_color.type = "number"
    /\ IsFallbackShell(call.result.html)
    /\ call.content = <<"a", ";", " ", "}">>

\* A semicolon before a brace is dropped from the rendered content.
C16_SemicolonWitness ==
    /\ Templated
    /\ call.result.html.kind = "rendered"
    /\ call.content = <<"a", ";", " ", "}">>
    /\ call.result.html.content = <<"a", "}">>

-----------------------------------------------------------------------------
(* Properties of the Yahoo transform.                                      *)

\* C18: after the Yahoo transform the css is at most 30,000 long: a longer
\* css is cut to its first 30,000, and a css of 30,000 or fewer is returned
\* unchanged.
C18_YahooCssWithinLimit ==
    (Optimized /\ ~call.result.fallback) =>
        \A i \in 1..Len(call.result.steps) :
            call.result.steps[i].client = "yahoo" =>
                LET css_in == call.result.steps[i].css_in
                    css_out == call.result.steps[i].css_out
                IN /\ StrLen(css_out) <= 30000
                   /\ StrLen(css_in) > 30000 => css_out = Prefix(css_in, 30000)
                   /\ StrLen(css_in) <= 30000 => css_out = css_in

-----------------------------------------------------------------------------
(* Properties of validate_and_optimize_html.                               *)

OptimizedHtml == call.op = "validate_and_optimize"

\* The image texts that have an alt attribute: data-alt is another attribute.
WithAltAttribute == {"img_alt", "img_alt_empty", "img_fixed"}

\* C19: with automatic fixes enabled, every <img> tag of the input without
\* alt attribute carries alt="Imagem" in the output, and the <img> tags that
\* have an alt attribute are left as they were.
C19_AltAddedWhereMissing ==
    (OptimizedHtml /\ call.fix_issues) =>
        LET before == ImageTags(call.html)
            after == ImageTags(call.result.optimized_html)
        IN /\ Len(after) = Len(before)
           /\ \A i \in 1..Len(before) :
                 IF before[i] \in WithAltAttribute
                 THEN after[i] = before[i]
                 ELSE after[i] = "img_fixed"

-----------------------------------------------------------------------------
(* Properties of the accessibility scores.                                 *)

\* The images of a document that have no alt attribute.
WithoutAltAttribute(html) == Copies(html, {"img", "img_data_alt"})

\* The identical document with an alt attribute on every image.
AllWithAlt(html) ==
    MapKinds(html, [img |-> "img_alt", img_data_alt |-> "img_alt"])

\* C20: the accessibility score is lowered by 5 for each <img> without alt
\* attribute, by at most 30 in total, relative to the identical document
\* with the alt attributes present; this is stated of the score of the
\* validator and of the accessibility_score of the optimizer's result.
C20_FivePerImageWithoutAlt ==
    /\ (Validated /\ call.check_accessibility) =>
          call.result.accessibility_score =
              _validate_accessibility(AllWithAlt(call.html)).score
              - Min(30, 5 * WithoutAltAttribute(call.html))
    /\ OptimizedHtml =>
          call.result.accessibility_score =
              _calculate_accessibility_score(
                  AllWithAlt(call.result.optimized_html))
              - Min(30, 5 * WithoutAltAttribute(call.result.optimized_html))

\* What the validator does: 5 for each <img> tag without the text "alt=",
\* at most 30.
C20_ValidatorLowersPerTagWithoutAltText ==
    (Validated /\ call.check_accessibility) =>
        call.result.accessibility_score =
            _validate_accessibility(AllWithAlt(call.html)).score
            - Min(30, 5 * Copies(call.html, {"img"}))

\* Seven images without alt are given to the validator: the cap is reached.
C20_CapReached ==
    /\ Validated /\ call.check_accessibility
    /\ Copies(call.html, {"img"}) = 7
    /\ Copies(call.html, {"img_data_alt"}) = 0
    /\ call.result.accessibility_score =
           _validate_accessibility(AllWithAlt(call.html)).score - 30

-----------------------------------------------------------------------------
(* Properties of the performance score.                                    *)

\* The performance score of a document by the table of deductions.
ScoreByDeductions(html) ==
    LET size == StrLen(html)
        images == Count(Lower(html), "<img")
        urls == Count(html, "https?://")
        complexity == Count(html, "gradient") + Count(html, "shadow")
                      + Count(html, "transform")
    IN 100
       - (IF size > 102400 THEN 30 ELSE IF size > 50000 THEN 15 ELSE 0)
       - (IF images > 10 THEN 20 ELSE IF images > 5 THEN 10 ELSE 0)
       - (IF urls > 6 THEN 20 ELSE IF urls > 3 THEN 10 ELSE 0)
       - (IF complexity > 10 THEN 10 ELSE 0)

C21_AllDeductionsWitness ==
    /\ Validated /\ call.check_performance
    /\ call.result.performance_score = 20
    /\ Len(call.result.warnings) >= 4

-----------------------------------------------------------------------------
(* Properties of the spam score.                                           *)

SpamChecked == call.op = "spam"

\* The risk tier of every result follows the bands of the score.
RiskLevelFollowsBands ==
    SpamChecked =>
        call.result.risk_level =
            (IF call.result.spam_score >= 8 THEN "high"
             ELSE IF call.result.spam_score >= 4 THEN "medium"
             ELSE IF call.result.spam_score >= 1 THEN "low"
             ELSE "very_low")

\* The factors that come from the document and not from the subject.
DocumentFactors ==
    SelectSeq(call.result.factors,
              LAMBDA f : f.label \in {"Palavra spam no conteúdo",
                                      "Muitos pontos de exclamação",
                                      "Link encurtado detectado"})

C22_BandWitness ==
    /\ SpamChecked
    /\ call.result.spam_score = 8
    /\ call.result.risk_level = "high"

C22_LowBandWitness ==
    /\ SpamChecked
    /\ call.result.spam_score = 1
    /\ call.result.risk_level = "low"

-----------------------------------------------------------------------------
(* Properties of the clients without a transform.                          *)

AppleMailLabel == "Full CSS3 support enabled"

\* C23: the transform of apple_mail returns the css and the html it was
\* given and the label "Full CSS3 support enabled", once for every
\* occurrence of apple_mail in target_clients; thunderbird is given no
\* transform at all, so the css and html accumulated before it reach the
\* next client unchanged.
C23_AppleMailAndThunderbirdChangeNothing ==
    Optimized =>
        LET steps == call.result.steps
            apple == SelectSeq(call.target_clients,
                               LAMBDA c : c = "apple_mail")
            known == SelectSeq(call.target_clients,
                               LAMBDA c : c # "thunderbird")
        IN /\ \A i \in 1..Len(steps) :
                /\ steps[i].client # "thunderbird"
                /\ steps[i].client = "apple_mail" =>
                      /\ steps[i].css_out = steps[i].css_in
                      /\ steps[i].html_out = steps[i].html_in
                      /\ steps[i].optimizations = <<AppleMailLabel>>
           /\ Len(SelectSeq(steps, LAMBDA s : s.client = "apple_mail"))
                 = Len(apple)
           /\ \A i \in 1..(Len(steps) - 1) :
                 /\ steps[i + 1].css_in = steps[i].css_out
                 /\ steps[i + 1].html_in = steps[i].html_out
           /\ ~call.result.fallback =>
                 Len(SelectSeq(call.result.optimizations,
                               LAMBDA l : l = AppleMailLabel)) = Len(apple)

\* apple_mail processed after a client that changed the css and the html.
C23_Witness ==
    /\ Optimized
    /\ ~call.result.fallback
    /\ call.target_clients = <<"outlook", "apple_mail">>
    /\ call.result.steps[1].css_out # call.result.steps[1].css_in
    /\ call.result.steps[1].html_out # call.result.steps[1].html_in
    /\ call.result.steps[2].css_out = call.result.steps[1].css_out
    /\ call.result.steps[2].html_out = call.result.steps[1].html_out

\* thunderbird between two clients with a transform.
C23_ThunderbirdWitness ==
    /\ Optimized
    /\ ~call.result.fallback
    /\ Len(call.target_clients) = 2
    /\ call.target_clients[1] = "thunderbird"
    /\ Len(call.result.steps) = 1
    /\ call.result.steps[1].css_in = _extract_css_from_html(call.html)
    /\ call.result.steps[1].css_out # call.result.steps[1].css_in

-----------------------------------------------------------------------------
(* Properties of the Outlook transform of the html.                        *)

\* The MSO conditional comments of a document.
MsoComments(html) == Count(Lower(html), "<!--[if mso")

\* The <head> tags of a document, in either case.
HeadTags(html) == Count(Lower(html), "<head")

\* C24: the Outlook transform of the html puts the MSO conditional comment
\* after <head> exactly when the document has no MSO conditional comment and
\* returns the document unchanged otherwise, so that after any number of
\* applications a document with a <head> has exactly one MSO conditional
\* comment.
C24_ExactlyOneMsoComment ==
    call.op = "outlook_html" =>
        /\ MsoComments(call.html_in) > 0 => call.html_out = call.html_in
        /\ (MsoComments(call.html_in) = 0 /\ HeadTags(call.html_in) > 0) =>
              MsoComments(call.html_out) > 0
        /\ HeadTags(call.html) > 0 => MsoComments(call.html_out) = 1

\* What the transform does: when the text "mso" occurs nowhere in the
\* document, in either case, the comment is put after every literal <head>;
\* otherwise the document is returned as given (the outlook branch of the
\* optimizer then adds its attributes to the tables).
OutlookHtmlBySubstring ==
    call.op = "outlook_html" =>
        LET expected == IF Contains(Lower(call.html_in), "mso")
                        THEN call.html_in
                        ELSE AfterHead(call.html_in, <<Tok("mso_block", 1)>>)
        IN /\ call.via = "css_expert" => call.html_out = expected
           /\ MsoComments(call.html_out) = MsoComments(expected)
           /\ call.n > 1 => MsoComments(call.html_out) = MsoComments(call.html_in)

\* A document with one <head> and no text "mso" after three applications.
OutlookHtmlWitness ==
    /\ call.op = "outlook_html"
    /\ call.n = MaxOutlookApply
    /\ MsoComments(call.html) = 0
    /\ MsoComments(call.html_out) = 1

-----------------------------------------------------------------------------
(* Properties of POST /modify and the project store.                       *)

\* The /modify requests answered with project_updated true.
SuccessfulModifications ==
    {r \in RequestIds : /\ req[r].pc = "done"
                        /\ req[r].op = "modify"
                        /\ req[r].update_success}

\* C25: the stored version is the initial version plus the number of
\* successful modifications, in every interleaving of the requests, and it
\* never decreases.
C25_VersionCountsModifications ==
    /\ [](db.metadata.version
            = InitProject.metadata.version
              + Cardinality(SuccessfulModifications))
    /\ [][db'.metadata.version >= db.metadata.version]_vars

\* What the update does: it stores the version the request read at its
\* start plus one, whatever was stored in between.
ModifyStoresReadVersionPlusOne ==
    [][\A r \in RequestIds :
          (req[r].pc = "updating" /\ req'[r].pc = "done") =>
              db'.metadata.version = req[r].project.metadata.version + 1]_vars

\* Two modifications that both succeeded and left the version one above the
\* initial one.
LostUpdateWitness ==
    /\ Cardinality(SuccessfulModifications) = 2
    /\ db.metadata.version = InitProject.metadata.version + 1

\* C26: a /modify request whose modification step failed writes nothing:
\* the update step of such a request leaves the stored project as it was.
C26_FailedModificationWritesNothing ==
    [][\A r \in RequestIds :
          (req[r].pc = "updating" /\ req[r].failed /\ req'[r].pc = "done") =>
              db' = db]_vars

\* A failed modification after which the stored html, text and version all
\* differ from the initial ones.
FailedModificationWitness ==
    \E r \in RequestIds :
        /\ req[r].pc = "done" /\ req[r].op = "modify" /\ req[r].failed
        /\ Cardinality(SuccessfulModifications) = 1
        /\ db.content.html # InitProject.content.html
        /\ db.content.text = ""
        /\ db.content.subject = InitProject.content.subject
        /\ db.metadata.version = InitProject.metadata.version + 1

-----------------------------------------------------------------------------
(* Properties of the issues the optimizer reports.                         *)

\* C27: every issue of the final validation of optimized_html is an issue of
\* the validation of the input, issues_fixed is not negative, and an input
\* without issues gives a result that is valid.
C27_NoIssueIntroduced ==
    OptimizedHtml =>
        LET found == call.result.issues_found
            final == call.result.validation_details.issues
        IN /\ \A i \in 1..Len(final) : \E j \in 1..Len(found) : final[i] = found[j]
           /\ call.result.issues_fixed >= 0
           /\ found = <<>> => call.result.valid

\* A document without issues whose optimized html has one.
IssueIntroducedWitness ==
    /\ OptimizedHtml
    /\ call.result.issues_found = <<>>
    /\ ~call.result.valid
    /\ call.result.issues_fixed = -1
    /\ \E i \in 1..Len(call.html) : call.html[i].k = "img_alt_empty"

-----------------------------------------------------------------------------
(* Properties of the stylesheet carried through the optimizer.             *)

\* The contents of all the style blocks of a document, in document order.
AllStyleContents(html) ==
    LET m == StyleMatches(html)
    IN Flatten([i \in 1..Len(m) |-> m[i].content])

\* The css the optimizer returns for a document when the client transforms
\* and the enhancement step are given the stylesheet css.
CssCarried(css) ==
    LET loop == ClientLoop(css, _extract_html_without_css(call.html),
                           call.target_clients)
    IN _apply_modern_enhancements(loop.css, loop.html,
                                  call.enable_dark_mode,
                                  call.mobile_first).css

\* The style blocks of a document that hold the stylesheet css.
BlocksHolding(html, css) ==
    Cardinality({i \in 1..Len(html) : IsStyle(html[i]) /\ html[i].css = css})

\* C28: the css of every style block of the input, in document order, is
\* carried through the client transforms and the enhancement step into the
\* returned css, and the returned html has exactly one style block, which
\* holds that css.
C28_NoStylesheetLost ==
    (Optimized /\ ~call.result.fallback) =>
        /\ call.result.css = CssCarried(AllStyleContents(call.html))
        /\ Count(call.result.html, "<style") = 1
        /\ BlocksHolding(call.result.html, call.result.css) = 1

\* What the optimizer carries: the content of the first style block only,
\* put back into the html unless a <style> tag without end is left in it.
FirstStyleBlockCarried ==
    (Optimized /\ ~call.result.fallback) =>
        /\ call.result.css = CssCarried(_extract_css_from_html(call.html))
        /\ ~Contains(_extract_html_without_css(call.html), "<style") =>
              BlocksHolding(call.result.html, call.result.css) >= 1

\* A document with two style blocks whose second stylesheet is in neither
\* the returned css nor the returned html.
SecondStyleBlockLostWitness ==
    /\ Optimized /\ ~call.result.fallback
    /\ call.target_clients = <<>>
    /\ Len(StyleMatches(call.html)) = 2
    /\ Contains(call.html, "border-radius")
    /\ ~Contains(call.result.css, "border-radius")
    /\ ~Contains(call.result.html, "border-radius")

-----------------------------------------------------------------------------
(* Properties of the request monitor.                                      *)

InFlight == {h \in HttpIds : http[h].pc = "processing"}

\* C29: once finish_request was called for a request, the entry of that
\* request in the history, when the history still holds it, is not
\* "processing" any more.
C29_FinishedRequestNotProcessing ==
    \A h \in HttpIds :
        http[h].pc = "done" =>
            \A i \in 1..Len(mon.request_history) :
                mon.request_history[i].object = http[h].object =>
                    mon.request_history[i].status \in {"completed", "failed"}

\* What finish_request guarantees: when it returns, the last entry of the
\* history with the id of the request is not "processing" (it can be the
\* entry of another request).
LastEntryWithIdNotProcessing ==
    [][\A h \in HttpIds :
          (http[h].pc = "processing" /\ http'[h].pc = "done") =>
              \A i \in 1..Len(mon'.request_history) :
                  (/\ mon'.request_history[i].id = http[h].request_id
                   /\ \A j \in (i + 1)..Len(mon'.request_history) :
                         mon'.request_history[j].id # http[h].request_id)
                  => mon'.request_history[i].status # "processing"]_vars

\* No request in flight, and an entry left "processing" for good.
StaleEntryWitness ==
    /\ InFlight = {}
    /\ \E i \in 1..Len(mon.request_history) :
          mon.request_history[i].status = "processing"

C30_ConcurrentWitness ==
    /\ Cardinality(InFlight) >= 2
    /\ mon.active_requests = Cardinality(InFlight)
    /\ \E h \in HttpIds : http[h].pc = "done"

=========================================================================
